---- MODULE Spec2Model ----
(***************************************************************************)
(* JobTracker: occupational data integration pipeline.                     *)
(*                                                                         *)
(* The model covers the code normalizer, the sentinel-aware numeric        *)
(* conversions, the occupation and skill document transformer, the skill   *)
(* aggregation fold, the batched upsert coordinator and the orchestrator   *)
(* that sequences them.                                                    *)
(*                                                                         *)
(* Strings are sequences of one-character strings, so that replace, strip, *)
(* len and slicing are computed as Python computes them.  Numbers are      *)
(* integers counting hundredths (1234.5 is 123450).  A Python value is a   *)
(* record [t, s, v]: t is the kind, s the text of a str, v the number.     *)
(***************************************************************************)
EXTENDS Integers, Sequences, FiniteSets, TLC

VARIABLES
    \* _normalize_soc_code called twice in a row
    soc_code, soc_norm, soc_renorm, npc,
    \* _safe_float and _safe_int called on one cell value
    value, default, conv_float, conv_int, cpc,
    \* transform_occupation called on one tabular row and one profile (or none)
    bls_data, onet_profile, now, transformed, tpc,
    \* index_documents: its arguments, its loop and counters, the import_ calls
    \* it has issued, and the search store
    collection_name, documents, batch_size, i, total_success, total_failed,
    import_calls, ipc, store, settings_batch_size,
    \* _build_skills_collection called on the profiles of one run
    onet_data, spc,
    \* run_full_refresh or check_and_update_oews: the call and its arguments,
    \* its position, its locals, the requests made to the profile service, the
    \* summary it builds and the exception it lets escape
    operation, drop_existing, include_onet, include_location_wages, ppc,
    schema_i, national_df, detailed_df, soc_codes, code_i, onet_calls, results,
    raised, clock,
    \* a second run_full_refresh on the same source data: what the sources
    \* hold, which run is in progress, and the store and summary the first run
    \* left
    source, run, first,
    \* get_complete_occupation: the code asked for, the position among the
    \* sub-calls, the attempts made by the request in progress, the answers
    \* gathered so far and the outcome of the call
    fetch_code, fetch_pc, fetch_attempts, fetch_answers, fetch_outcome,
    fetch_requests, fetch_delays,
    \* OEWSSeriesID: the call made, the instance it built, the identifier
    \* returned
    series_call, series, series_id, bpc

normVars == <<soc_code, soc_norm, soc_renorm, npc>>
convVars == <<value, default, conv_float, conv_int, cpc>>
transVars == <<bls_data, onet_profile, now, transformed, tpc>>
indexVars == <<collection_name, documents, batch_size, i, total_success, total_failed,
               import_calls, ipc, store, settings_batch_size>>
skillVars == <<onet_data, spc>>
pipeVars == <<operation, drop_existing, include_onet, include_location_wages, ppc,
              schema_i, national_df, detailed_df, soc_codes, code_i, onet_calls,
              results, raised, clock>>
rerunVars == <<source, run, first>>
fetchVars == <<fetch_code, fetch_pc, fetch_attempts, fetch_answers, fetch_outcome,
               fetch_requests, fetch_delays>>
seriesVars == <<series_call, series, series_id, bpc>>
vars == <<normVars, convVars, transVars, indexVars, skillVars, pipeVars, rerunVars,
          fetchVars, seriesVars>>
NormOthers == <<convVars, transVars, indexVars, skillVars, pipeVars, rerunVars, fetchVars,
               seriesVars>>
ConvOthers == <<normVars, transVars, indexVars, skillVars, pipeVars, rerunVars, fetchVars,
               seriesVars>>
TransOthers == <<normVars, convVars, indexVars, skillVars, pipeVars, rerunVars, fetchVars,
               seriesVars>>
IndexOthers == <<normVars, convVars, transVars, pipeVars, rerunVars, fetchVars,
               seriesVars>>
PipeOthers == <<normVars, convVars, transVars, spc, rerunVars, fetchVars,
               seriesVars>>
FetchOthers == <<normVars, convVars, transVars, indexVars, skillVars, pipeVars, rerunVars,
                 seriesVars>>
SeriesOthers == <<normVars, convVars, transVars, indexVars, skillVars, pipeVars, rerunVars,
                  fetchVars>>

(***************************************************************************)
(* Bounds                                                                  *)
(***************************************************************************)
MaxCodeLen == 6
MaxCellLen == 3
MaxDocs == 5
MaxBatch == 3
MaxProfiles == 3
MaxRows == 2

(***************************************************************************)
(* Python values                                                           *)
(***************************************************************************)
PyNone == [t |-> "none", s |-> <<>>, v |-> 0]
PyNaN == [t |-> "nan", s |-> <<>>, v |-> 0]
PyInf == [t |-> "inf", s |-> <<>>, v |-> 1]
PyNegInf == [t |-> "inf", s |-> <<>>, v |-> -1]
PyObj == [t |-> "obj", s |-> <<>>, v |-> 0]
PyInt(n) == [t |-> "int", s |-> <<>>, v |-> 100 * n]
PyFloat(h) == [t |-> "float", s |-> <<>>, v |-> h]
PyStr(chars) == [t |-> "str", s |-> chars, v |-> 0]
\* a text the program only copies, held as one token
Text(w) == PyStr(<<w>>)

\* the outcome of a call: the exception raised ("none" when it returns) and the
\* value returned
Return(x) == [exc |-> "none", ret |-> x]
Raise(e) == [exc |-> e, ret |-> PyNone]

Collections == {"occupations", "occupation_wages_by_location", "skills"}

EmptyDocs == [k \in {} |-> PyNone]

\* a harness that is not running: its variables hold no call
NotCalled == [t |-> "notcalled", s |-> <<>>, v |-> 0]

SeriesIdle ==
    /\ series_call = NotCalled
    /\ series = NotCalled
    /\ series_id = NotCalled
    /\ bpc = "idle"

NormIdle ==
    /\ soc_code = NotCalled
    /\ soc_norm = NotCalled
    /\ soc_renorm = NotCalled
    /\ npc = "idle"

ConvIdle ==
    /\ value = NotCalled
    /\ default = NotCalled
    /\ conv_float = NotCalled
    /\ conv_int = NotCalled
    /\ cpc = "idle"

TransIdle ==
    /\ bls_data = NotCalled
    /\ onet_profile = NotCalled
    /\ now = 0
    /\ transformed = NotCalled
    /\ tpc = "idle"

SkillIdle ==
    /\ onet_data = <<>>
    /\ spc = "idle"

\* a table that was not downloaded
NoFrame == [columns |-> {}, rows |-> <<>>]

NoResults == [k \in {} |-> 0]

PipeIdle ==
    /\ operation = "none"
    /\ drop_existing = FALSE
    /\ include_onet = FALSE
    /\ include_location_wages = FALSE
    /\ ppc = "idle"
    /\ schema_i = 0
    /\ national_df = NoFrame
    /\ detailed_df = NoFrame
    /\ soc_codes = <<>>
    /\ code_i = 0
    /\ onet_calls = <<>>
    /\ results = NoResults
    /\ raised = "none"
    /\ clock = 0

\* no second run: nothing is known of the sources and no first run is kept
RerunIdle ==
    /\ source = NoResults
    /\ run = 1
    /\ first = NoResults

FetchIdle ==
    /\ fetch_code = NotCalled
    /\ fetch_pc = "idle"
    /\ fetch_attempts = 0
    /\ fetch_answers = NoResults
    /\ fetch_outcome = NotCalled
    /\ fetch_requests = 0
    /\ fetch_delays = 0

IndexIdle ==
    /\ collection_name = "none"
    /\ documents = <<>>
    /\ batch_size = 0
    /\ i = 0
    /\ total_success = 0
    /\ total_failed = 0
    /\ import_calls = <<>>
    /\ ipc = "idle"
    /\ store = [c \in Collections |-> [exists |-> TRUE, docs |-> EmptyDocs]]
    /\ settings_batch_size = 1


Range(xs) == {xs[k] : k \in 1..Len(xs)}

Min(a, b) == IF a <= b THEN a ELSE b

\* the decimal digits of a natural number
RECURSIVE Decimal(_)
Decimal(n) ==
    LET digit == <<"0", "1", "2", "3", "4", "5", "6", "7", "8", "9">>[(n % 10) + 1]
    IN  IF n < 10 THEN <<digit>> ELSE Append(Decimal(n \div 10), digit)

\* the text of a number of hundredths: 123450 is "1234.5", 7500000 is "75000.0"
FloatText(h) ==
    LET m == IF h < 0 THEN -h ELSE h
        frac == IF m % 10 = 0 THEN Decimal((m % 100) \div 10)
                ELSE Decimal((m % 100) \div 10) \o Decimal(m % 10)
    IN  (IF h < 0 THEN <<"-">> ELSE <<>>) \o Decimal(m \div 100) \o <<".">> \o frac

\* str(value)
str(x) ==
    CASE x.t = "str" -> x.s
      [] x.t = "nan" -> <<"n", "a", "n">>
      [] x.t = "inf" -> IF x.v < 0 THEN <<"-", "i", "n", "f">> ELSE <<"i", "n", "f">>
      [] x.t = "int" -> (IF x.v < 0 THEN <<"-">> ELSE <<>>)
                        \o Decimal((IF x.v < 0 THEN -x.v ELSE x.v) \div 100)
      [] x.t = "float" -> FloatText(x.v)
      [] x.t = "none" -> <<"N", "o", "n", "e">>
      [] OTHER -> <<"<object>">>

\* s.replace(ch, "")
Replace(s, ch) == SelectSeq(s, LAMBDA c : c # ch)

Whitespace == {" "}

RECURSIVE LStrip(_)
LStrip(s) == IF s # <<>> /\ Head(s) \in Whitespace THEN LStrip(Tail(s)) ELSE s

RECURSIVE RStrip(_)
RStrip(s) ==
    IF s # <<>> /\ s[Len(s)] \in Whitespace
    THEN RStrip(SubSeq(s, 1, Len(s) - 1))
    ELSE s

\* s.strip()
Strip(s) == RStrip(LStrip(s))

\* s[a:b] for 0 <= a <= b
Slice(s, a, b) == SubSeq(s, Min(a, Len(s)) + 1, Min(b, Len(s)))

(***************************************************************************)
(* Code normalizer                                                         *)
(***************************************************************************)
\* the normalizer without the removal of hyphens
NormalizeKeepingHyphens(code) ==
    LET soc == Strip(Replace(str(code), "."))
    IN  IF Len(soc) >= 6
        THEN PyStr(Slice(soc, 0, 2) \o <<"-">> \o Slice(soc, 2, 6))
        ELSE code

_normalize_soc_code(code) ==
    LET soc == Strip(Replace(Replace(str(code), "-"), "."))
    IN  IF Len(soc) >= 6
        THEN PyStr(Slice(soc, 0, 2) \o <<"-">> \o Slice(soc, 2, 6))
        ELSE code

\* f"{soc_code}.00"
to_versioned(code) == PyStr(str(code) \o <<".", "0", "0">>)

(***************************************************************************)
(* Inputs of the normalizer                                                *)
(***************************************************************************)
CodeChars == {"1", "5", "-", ".", " ", "a"}
Digits == {"0", "1", "2", "3", "4", "5", "6", "7", "8", "9"}

SeqsUpTo(S, n) == UNION {[1..k -> S] : k \in 0..n}

NamedCodes ==
    { <<"1", "5", "1", "2", "5", "2">>,
      <<"1", "5", "-", "1", "2", "5", "2">>,
      <<"1", "5", "-", "1", "2", "5", "2", ".", "0", "0">>,
      <<" ", "1", "5", "-", "1", "2", "5", "2", " ">>,
      <<"1", "5", "1", "2", "5", " ", "2">>,
      <<"a", "b">>,
      <<"a", "b", "c", "d", "e", "f", "g">> }

RawCodes == SeqsUpTo(CodeChars, MaxCodeLen) \cup NamedCodes

InitNormalize ==
    /\ SeriesIdle
    /\ PipeIdle
    /\ RerunIdle
    /\ FetchIdle
    /\ IndexIdle
    /\ SkillIdle
    /\ ConvIdle
    /\ TransIdle
    /\ soc_code \in {PyStr(c) : c \in RawCodes}
    /\ soc_norm = NotCalled
    /\ soc_renorm = NotCalled
    /\ npc = "start"

Normalize ==
    /\ npc = "start"
    /\ soc_norm' = _normalize_soc_code(soc_code)
    /\ npc' = "normalized"
    /\ UNCHANGED <<soc_code, soc_renorm>>
    /\ UNCHANGED NormOthers

Renormalize ==
    /\ npc = "normalized"
    /\ soc_renorm' = _normalize_soc_code(soc_norm)
    /\ npc' = "renormalized"
    /\ UNCHANGED <<soc_code, soc_norm>>
    /\ UNCHANGED NormOthers

NextNormalize == Normalize \/ Renormalize

SpecNormalize == InitNormalize /\ [][NextNormalize]_vars

(***************************************************************************)
(* Sentinel-aware conversions                                              *)
(***************************************************************************)
DigitSeq == <<"0", "1", "2", "3", "4", "5", "6", "7", "8", "9">>
DigitValue(c) == (CHOOSE k \in 1..10 : DigitSeq[k] = c) - 1

RECURSIVE DigitsToInt(_)
DigitsToInt(s) ==
    IF s = <<>> THEN 0
    ELSE 10 * DigitsToInt(SubSeq(s, 1, Len(s) - 1)) + DigitValue(s[Len(s)])

AllDigits(s) == \A k \in 1..Len(s) : s[k] \in Digits

\* the position of the first ch in s, Len(s) + 1 when there is none
IndexOf(s, ch) ==
    IF \E k \in 1..Len(s) : s[k] = ch
    THEN CHOOSE k \in 1..Len(s) : s[k] = ch /\ \A j \in 1..(k - 1) : s[j] # ch
    ELSE Len(s) + 1

\* the hundredths of a fraction's digits: "5" is 50, "25" is 25, "" is 0
FractionHundredths(frac) ==
    IF Len(frac) = 0 THEN 0
    ELSE IF Len(frac) = 1 THEN 10 * DigitValue(frac[1])
    ELSE 10 * DigitValue(frac[1]) + DigitValue(frac[2])

\* float(text) of an unsigned literal: digits, at most one point, one digit at least
ParseUnsigned(body) ==
    LET dot == IndexOf(body, ".")
        whole == SubSeq(body, 1, dot - 1)
        frac == SubSeq(body, dot + 1, Len(body))
    IN  IF body = <<"i", "n", "f">> THEN Return(PyInf)
        ELSE IF body = <<"n", "a", "n">> THEN Return(PyNaN)
        ELSE IF AllDigits(whole) /\ AllDigits(frac) /\ Len(whole) + Len(frac) >= 1
        THEN Return(PyFloat(100 * DigitsToInt(whole) + FractionHundredths(frac)))
        ELSE Raise("ValueError")

Negate(x) ==
    CASE x.t = "float" -> PyFloat(0 - x.v)
      [] x.t = "inf" -> [x EXCEPT !.v = 0 - x.v]
      [] OTHER -> x

\* float(text): surrounding whitespace and one leading sign are accepted
ParseFloat(text) ==
    LET body == Strip(text)
    IN  IF body # <<>> /\ Head(body) = "-"
        THEN LET r == ParseUnsigned(Tail(body))
             IN  IF r.exc = "none" THEN Return(Negate(r.ret)) ELSE r
        ELSE ParseUnsigned(body)

\* float(value)
float(x) ==
    CASE x.t = "str" -> ParseFloat(x.s)
      [] x.t = "int" -> Return(PyFloat(x.v))
      [] x.t \in {"float", "inf", "nan"} -> Return(x)
      [] OTHER -> Raise("TypeError")

\* int(x) of a float: truncation toward zero
int(x) ==
    CASE x.t = "inf" -> Raise("OverflowError")
      [] x.t = "nan" -> Raise("ValueError")
      [] OTHER ->
            Return([t |-> "int", s |-> <<>>,
                    v |-> IF x.v >= 0
                          THEN 100 * (x.v \div 100)
                          ELSE 0 - 100 * ((0 - x.v) \div 100)])

\* pd.isna(value) of a scalar
isna(x) == x.t \in {"none", "nan"}

Sentinels == {<<"*">>, <<"*", "*">>, <<"#">>}

\* value in ("*", "**", "#")
IsSentinel(x) == x.t = "str" /\ x.s \in Sentinels

Caught == {"ValueError", "TypeError"}

_safe_float(x, dflt) ==
    IF isna(x) \/ IsSentinel(x) THEN Return(dflt)
    ELSE LET f == float(x)
         IN  IF f.exc \in Caught THEN Return(dflt) ELSE f

_safe_int(x, dflt) ==
    IF isna(x) \/ IsSentinel(x) THEN Return(dflt)
    ELSE LET f == float(x)
         IN  IF f.exc \in Caught THEN Return(dflt)
             ELSE IF f.exc # "none" THEN f
             ELSE LET n == int(f.ret)
                  IN  IF n.exc \in Caught THEN Return(dflt) ELSE n

(***************************************************************************)
(* Inputs of the conversions                                               *)
(***************************************************************************)
CellChars == {"1", "5", ".", "-", "*", "#", " "}

NamedCells ==
    { <<"1", "2", "3", "4", ".", "5">>,
      <<"7", "5", "0", "0", "0">>,
      <<"i", "n", "f">>,
      <<"n", "a", "n">>,
      <<"a", "b", "c">> }

CellValues ==
    {PyNone, PyNaN, PyInf, PyNegInf, PyObj, PyInt(0), PyInt(1000), PyInt(75000),
     PyFloat(123450), PyFloat(-570)}
    \cup {PyStr(c) : c \in SeqsUpTo(CellChars, MaxCellLen) \cup NamedCells}

Defaults == {PyInt(0), PyInt(-1)}

InitConvert ==
    /\ SeriesIdle
    /\ PipeIdle
    /\ RerunIdle
    /\ FetchIdle
    /\ IndexIdle
    /\ SkillIdle
    /\ NormIdle
    /\ TransIdle
    /\ value \in CellValues
    /\ default \in Defaults
    /\ conv_float = NotCalled
    /\ conv_int = NotCalled
    /\ cpc = "start"

SafeFloat ==
    /\ cpc = "start"
    /\ conv_float' = _safe_float(value, default)
    /\ cpc' = "float_done"
    /\ UNCHANGED <<value, default, conv_int>>
    /\ UNCHANGED ConvOthers

SafeInt ==
    /\ cpc = "float_done"
    /\ conv_int' = _safe_int(value, default)
    /\ cpc' = "done"
    /\ UNCHANGED <<value, default, conv_float>>
    /\ UNCHANGED ConvOthers

NextConvert == SafeFloat \/ SafeInt

SpecConvert == InitConvert /\ [][NextConvert]_vars

(***************************************************************************)
(* Canonical document transformer                                          *)
(***************************************************************************)
\* d.get(key, dflt)
Get(d, key, dflt) == IF key \in DOMAIN d THEN d[key] ELSE dflt

\* d.update(e)
Update(d, e) ==
    [k \in DOMAIN d \cup DOMAIN e |-> IF k \in DOMAIN e THEN e[k] ELSE d[k]]

\* [f(x) for x in xs]
Map(xs, f(_)) == [k \in 1..Len(xs) |-> f(xs[k])]

NoProfile == PyNone

\* level or 0.0
LevelOrZero(level) == IF level.t = "none" \/ level.v = 0 THEN PyFloat(0) ELSE level

_transform_skill(skill) ==
    [id |-> skill.id,
     name |-> skill.name,
     description |-> skill.description,
     importance |-> skill.importance,
     level |-> LevelOrZero(skill.level),
     category |-> skill.category]

NotSpecified == Text("Not specified")

\* the first entry of sorted(levels, key=percentage, reverse=True): the sort is
\* stable, so the earliest of the entries with the highest percentage
HighestLevel(levels) ==
    LET top == CHOOSE k \in 1..Len(levels) :
                  /\ \A j \in 1..Len(levels) : levels[j].percentage <= levels[k].percentage
                  /\ \A j \in 1..(k - 1) : levels[j].percentage < levels[k].percentage
    IN  levels[top]

_extract_education_level(education) ==
    IF education.t = "none" THEN NotSpecified
    ELSE IF education.level = <<>> THEN NotSpecified
    ELSE HighestLevel(education.level).name

_extract_experience(details) ==
    CASE details.job_zone = 1 -> Text("None required")
      [] details.job_zone = 2 -> Text("Some prior experience helpful")
      [] details.job_zone = 3 -> Text("Previous work experience required")
      [] details.job_zone = 4 -> Text("Considerable work experience")
      [] details.job_zone = 5 -> Text("Extensive work experience required")
      [] OTHER -> NotSpecified

MaxTasks == 20

SkillName(skill) == skill.name
TechName(tech) == tech.name
TaskDescription(task) == task.description
IsHot(tech) == tech.hot_technology

_transform_onet_data(details) ==
    [description |-> details.description,
     job_zone |-> details.job_zone,
     bright_outlook |-> details.bright_outlook,
     skills |-> Map(details.skills, _transform_skill),
     knowledge_areas |-> Map(details.knowledge, _transform_skill),
     abilities |-> Map(details.abilities, _transform_skill),
     technology_skills |-> Map(details.technology_skills, TechName),
     hot_technologies |-> Map(SelectSeq(details.technology_skills, IsHot), TechName),
     tasks |-> Map(Slice(details.tasks, 0, MaxTasks), TaskDescription),
     skill_names |-> Map(details.skills, SkillName),
     knowledge_names |-> Map(details.knowledge, SkillName),
     ability_names |-> Map(details.abilities, SkillName),
     education_level |-> _extract_education_level(details.education),
     experience_required |-> _extract_experience(details)]

\* the wage columns of a row and the document fields they fill
WageFields ==
    [national_mean_wage |-> "A_MEAN",
     national_median_wage |-> "A_MEDIAN",
     hourly_mean_wage |-> "H_MEAN",
     hourly_median_wage |-> "H_MEDIAN",
     wage_pct_10 |-> "A_PCT10",
     wage_pct_25 |-> "A_PCT25",
     wage_pct_75 |-> "A_PCT75",
     wage_pct_90 |-> "A_PCT90",
     hourly_pct_10 |-> "H_PCT10",
     hourly_pct_25 |-> "H_PCT25",
     hourly_pct_75 |-> "H_PCT75",
     hourly_pct_90 |-> "H_PCT90"]

\* the exceptions a set of call outcomes raised
Raised(outcomes) == {o.exc : o \in outcomes} \ {"none"}

transform_occupation(row, details, time) ==
    LET soc == _normalize_soc_code(Get(row, "OCC_CODE", PyStr(<<>>)))
        emp == _safe_int(Get(row, "TOT_EMP", PyNone), PyInt(0))
        wage == [f \in DOMAIN WageFields |->
                    _safe_float(Get(row, WageFields[f], PyNone), PyFloat(0))]
        doc == Update(
                 [id |-> soc,
                  soc_code |-> soc,
                  onet_code |-> to_versioned(soc),
                  title |-> Get(row, "OCC_TITLE", PyStr(<<>>)),
                  occupation_group |-> Get(row, "O_GROUP", Text("detailed")),
                  national_employment |-> emp.ret,
                  last_updated |-> time],
                 [f \in DOMAIN WageFields |-> wage[f].ret])
        escaped == Raised({emp} \cup {wage[f] : f \in DOMAIN WageFields})
    IN  IF escaped # {} THEN Raise(CHOOSE e \in escaped : TRUE)
        ELSE IF details # NoProfile
        THEN Return(Update(doc, _transform_onet_data(details)))
        ELSE Return(doc)

(***************************************************************************)
(* Inputs of the transformer                                               *)
(***************************************************************************)
C_151252 == <<"1", "5", "1", "2", "5", "2">>
C_15_1252 == <<"1", "5", "-", "1", "2", "5", "2">>
C_15_1252_00 == <<"1", "5", "-", "1", "2", "5", "2", ".", "0", "0">>
C_29_1141 == <<"2", "9", "-", "1", "1", "4", "1">>
C_1512 == <<"1", "5", "1", "2">>
C_ab == <<"a", "b">>
C_total == <<"a", "b", "c", "d", "e", "f", "g">>

\* OCC_CODE cells: well-formed codes in each style, a padded one, a short one, a
\* non-digit one, an empty cell read as NaN
OccCodes ==
    {PyStr(C_151252), PyStr(C_15_1252), PyStr(C_15_1252_00), PyStr(C_29_1141),
     PyStr(<<" ">> \o C_15_1252), PyStr(C_1512), PyStr(C_ab), PyStr(C_total), PyNaN}

EmploymentCells ==
    {PyInt(1000), PyStr(<<"*", "*">>), PyNaN, PyStr(<<"i", "n", "f">>), PyInf}

WageCells == {PyInt(75000), PyStr(<<"#">>), PyStr(<<"1", "2", "3", "4", ".", "5">>)}

\* tabular rows: every row has a code, a title and an employment cell; the wage
\* columns other than A_MEDIAN are present or absent together
Rows ==
    { [OCC_CODE |-> c, OCC_TITLE |-> Text("Test Analysts"), TOT_EMP |-> e,
       A_MEDIAN |-> w] : c \in OccCodes, e \in EmploymentCells, w \in WageCells }
    \cup
    { [OCC_CODE |-> c, OCC_TITLE |-> Text("Test Analysts"), O_GROUP |-> Text("detailed"),
       TOT_EMP |-> PyInt(1000), A_MEAN |-> w, A_MEDIAN |-> w, H_MEAN |-> PyNaN,
       H_MEDIAN |-> PyStr(<<"*">>)] : c \in OccCodes, w \in WageCells }
    \cup {[OCC_TITLE |-> Text("Test Analysts")]}

Sk(id, name, importance, level, category) ==
    [id |-> PyStr(id), name |-> Text(name), description |-> Text(name),
     importance |-> PyFloat(importance), level |-> level, category |-> category]

Id_2A1a == <<"2", ".", "A", ".", "1", ".", "a">>
Id_2C1a == <<"2", ".", "C", ".", "1", ".", "a">>
Id_1A1a == <<"1", ".", "A", ".", "1", ".", "a">>

Profile(code, skills, knowledge, abilities, zone, education) ==
    [code |-> code,
     title |-> Text("Software Developers"),
     description |-> Text("Develop software"),
     job_zone |-> zone,
     skills |-> skills,
     knowledge |-> knowledge,
     abilities |-> abilities,
     technology_skills |-> << [name |-> Text("Python"), hot_technology |-> TRUE],
                              [name |-> Text("COBOL"), hot_technology |-> FALSE] >>,
     tasks |-> << [id |-> Text("t1"), description |-> Text("Write code"),
                   importance |-> PyFloat(450)] >>,
     education |-> education,
     bright_outlook |-> TRUE]

Educations ==
    { PyNone,
      [t |-> "dict", level |-> <<>>],
      [t |-> "dict",
       level |-> << [name |-> Text("Associate"), percentage |-> 20],
                    [name |-> Text("Bachelor"), percentage |-> 60],
                    [name |-> Text("Master"), percentage |-> 60] >>] }

InitTransform ==
    /\ SeriesIdle
    /\ PipeIdle
    /\ RerunIdle
    /\ FetchIdle
    /\ IndexIdle
    /\ SkillIdle
    /\ NormIdle
    /\ ConvIdle
    /\ bls_data \in Rows
    /\ onet_profile \in {NoProfile} \cup
          { Profile(PyStr(C_15_1252_00), sk, <<>>, ab, 4, ed) :
              sk \in SeqsUpTo({Sk(Id_2A1a, "Reading Comprehension", 400, PyNone, "skill")}, 1),
              ab \in SeqsUpTo({Sk(Id_1A1a, "Oral Comprehension", 300, PyFloat(200), "ability")}, 1),
              ed \in Educations }
    /\ now \in {1, 2}
    /\ transformed = NotCalled
    /\ tpc = "start"

TransformOccupation ==
    /\ tpc = "start"
    /\ transformed' = transform_occupation(bls_data, onet_profile, now)
    /\ tpc' = "done"
    /\ UNCHANGED <<bls_data, onet_profile, now>>
    /\ UNCHANGED TransOthers

NextTransform == TransformOccupation

SpecTransform == InitTransform /\ [][NextTransform]_vars

(***************************************************************************)
(* Load/upsert coordinator                                                 *)
(***************************************************************************)
\* a store that keeps the document it already has for an id
UpsertKeepingFirst(docs, doc) ==
    [k \in DOMAIN docs \cup {doc.id} |-> IF k \in DOMAIN docs THEN docs[k] ELSE doc]

\* the store after one document is upserted: a document with the same id is
\* replaced whole
Upsert(docs, doc) ==
    [k \in DOMAIN docs \cup {doc.id} |-> IF k = doc.id THEN doc ELSE docs[k]]

\* the store after import_ handled a batch with the given per-item results
RECURSIVE ApplyBatch(_, _, _)
ApplyBatch(docs, batch, answers) ==
    IF batch = <<>> THEN docs
    ELSE ApplyBatch(IF Head(answers) THEN Upsert(docs, Head(batch)) ELSE docs,
                    Tail(batch), Tail(answers))

ImportRaised == [raised |-> TRUE, results |-> <<>>]

\* what import_ can do with a batch: raise, or return one result per document;
\* it raises when the collection does not exist, and the store accepts no
\* document whose id is not a string
ImportOutcomes(batch, exists) ==
    {ImportRaised} \cup
    IF exists
    THEN {[raised |-> FALSE, results |-> r] :
            r \in {q \in [1..Len(batch) -> BOOLEAN] :
                     \A k \in 1..Len(batch) : q[k] => batch[k].id.t = "str"}}
    ELSE {}

CountOf(answers, b) == Cardinality({k \in 1..Len(answers) : answers[k] = b})

\* a chunk that stops one document short
BatchShort(docs, start, size) == Slice(docs, start, start + size - 1)

\* documents[i : i + batch_size]
Batch(docs, start, size) == Slice(docs, start, start + size)

\* batch_size or self.settings.batch_size
EffectiveBatchSize(param, configured) == IF param # 0 THEN param ELSE configured

\* a tally that takes every answered document for a success
SuccessOfChunkAll(outcome, batch) ==
    IF outcome.raised THEN 0 ELSE Len(batch)

SuccessOfChunk(outcome, batch) ==
    IF outcome.raised THEN 0 ELSE CountOf(outcome.results, TRUE)

\* a raised chunk counted as one failure
FailedOfChunkOnce(outcome, batch) ==
    IF outcome.raised THEN 1 ELSE CountOf(outcome.results, FALSE)

FailedOfChunk(outcome, batch) ==
    IF outcome.raised THEN Len(batch) ELSE CountOf(outcome.results, FALSE)

\* the entry of index_documents
StartIndex(name, docs, param) ==
    /\ collection_name' = name
    /\ documents' = docs
    /\ batch_size' = EffectiveBatchSize(param, settings_batch_size)
    /\ i' = 0
    /\ total_success' = 0
    /\ total_failed' = 0
    /\ import_calls' = <<>>
    /\ ipc' = "loop"
    /\ UNCHANGED <<store, settings_batch_size>>

\* one iteration of the loop of index_documents
ImportChunk ==
    /\ ipc = "loop"
    /\ i < Len(documents)
    /\ LET batch == Batch(documents, i, batch_size)
       IN  \E outcome \in ImportOutcomes(batch, store[collection_name].exists) :
             /\ import_calls' = Append(import_calls, [batch |-> batch, outcome |-> outcome])
             /\ total_success' = total_success + SuccessOfChunk(outcome, batch)
             /\ total_failed' = total_failed + FailedOfChunk(outcome, batch)
             /\ store' = IF outcome.raised THEN store
                         ELSE [store EXCEPT ![collection_name].docs =
                                  ApplyBatch(@, batch, outcome.results)]
    /\ i' = i + batch_size
    /\ UNCHANGED <<collection_name, documents, batch_size, ipc, settings_batch_size>>

\* the loop is over: index_documents returns its two counters
IndexReturn ==
    /\ ipc = "loop"
    /\ i >= Len(documents)
    /\ ipc' = "returned"
    /\ UNCHANGED <<collection_name, documents, batch_size, i, total_success,
                   total_failed, import_calls, store, settings_batch_size>>

(***************************************************************************)
(* Inputs of the coordinator                                               *)
(***************************************************************************)
IxDoc(k) == [id |-> PyStr(<<"d", DigitSeq[k + 1]>>), title |-> Text("document")]

InitIndex ==
    /\ SeriesIdle
    /\ PipeIdle
    /\ RerunIdle
    /\ FetchIdle
    /\ NormIdle
    /\ ConvIdle
    /\ TransIdle
    /\ SkillIdle
    /\ collection_name = "none"
    /\ documents = <<>>
    /\ batch_size = 0
    /\ i = 0
    /\ total_success = 0
    /\ total_failed = 0
    /\ import_calls = <<>>
    /\ ipc = "start"
    /\ store \in {[c \in Collections |-> [exists |-> e, docs |-> EmptyDocs]] : e \in BOOLEAN}
    /\ settings_batch_size \in 1..MaxBatch

IndexCall ==
    /\ ipc = "start"
    /\ \E n \in 0..MaxDocs, param \in 0..MaxBatch :
          StartIndex("occupations", [k \in 1..n |-> IxDoc(k)], param)
    /\ UNCHANGED skillVars
    /\ UNCHANGED IndexOthers

IndexStep ==
    /\ ImportChunk
    /\ UNCHANGED skillVars
    /\ UNCHANGED IndexOthers

IndexDone ==
    /\ IndexReturn
    /\ UNCHANGED skillVars
    /\ UNCHANGED IndexOthers

NextIndex == IndexCall \/ IndexStep \/ IndexDone

SpecIndex == InitIndex /\ [][NextIndex]_vars

(***************************************************************************)
(* Skill aggregation builder                                               *)
(***************************************************************************)
\* bool(x)
Truthy(x) ==
    CASE x.t = "none" -> FALSE
      [] x.t \in {"int", "float", "bool"} -> x.v # 0
      [] x.t = "str" -> x.s # <<>>
      [] OTHER -> TRUE

RECURSIVE SumOf(_)
SumOf(xs) == IF xs = <<>> THEN 0 ELSE Head(xs).v + SumOf(Tail(xs))

\* round(total / n, 2) in hundredths, for total >= 0 and n > 0; where the exact
\* mean lies halfway between two hundredths the float nearest to it decides the
\* direction, which tieUp stands for
Round2(total, n, tieUp) ==
    LET q == total \div n
        r == total % n
    IN  IF 2 * r < n THEN q
        ELSE IF 2 * r > n THEN q + 1
        ELSE IF tieUp THEN q + 1 ELSE q

\* every occupation's value of the field, an absent one counted as 0
ReportedAll(related, field) ==
    [k \in 1..Len(related) |->
        IF related[k][field].t = "none" THEN PyFloat(0) ELSE related[k][field]]

\* [occ.get(field, 0) for occ in related_occupations if occ.get(field)]
Reported(related, field) ==
    LET kept == SelectSeq(related, LAMBDA occ : Truthy(occ[field]))
    IN  [k \in 1..Len(kept) |-> kept[k][field]]

\* round(sum(xs) / len(xs) if xs else 0.0, 2)
Average(xs, tieUp) ==
    IF xs = <<>> THEN PyFloat(0) ELSE PyFloat(Round2(SumOf(xs), Len(xs), tieUp))

_categorize_skill(skill_id) ==
    IF skill_id.s = <<>> \/ IndexOf(skill_id.s, ".") > Len(skill_id.s)
    THEN Text("General")
    ELSE LET prefix == SubSeq(skill_id.s, 1, IndexOf(skill_id.s, ".") - 1)
         IN  CASE prefix = <<"1">> -> Text("Worker Characteristics")
               [] prefix = <<"2">> -> Text("Worker Requirements")
               [] prefix = <<"3">> -> Text("Experience Requirements")
               [] prefix = <<"4">> -> Text("Occupational Requirements")
               [] OTHER -> Text("General")

MaxRelated == 50

transform_skill_document(skill_id, skill_name, skill_type, description, related, time, tieUp) ==
    [id |-> skill_id,
     skill_id |-> skill_id,
     skill_name |-> skill_name,
     skill_type |-> skill_type,
     description |-> description,
     category |-> _categorize_skill(skill_id),
     related_occupations |-> Slice(related, 0, MaxRelated),
     occupation_count |-> Len(related),
     avg_importance |-> Average(Reported(related, "importance"), tieUp),
     avg_level |-> Average(Reported(related, "level"), tieUp),
     last_updated |-> time]

\* skill_aggregator is a defaultdict: its buckets in the order of their first use
NewBucket(key) ==
    [key |-> key, name |-> PyStr(<<>>), description |-> PyStr(<<>>), type |-> "",
     occupations |-> <<>>]

BucketIndex(agg, key) ==
    IF \E k \in 1..Len(agg) : agg[k].key = key
    THEN CHOOSE k \in 1..Len(agg) : agg[k].key = key
    ELSE 0

\* an entry that sets name, description and type only when it opens the bucket
AddEntryKeepingFirst(agg, entry, type, code, title) ==
    LET fresh == BucketIndex(agg, entry.id) = 0
        touched == IF fresh THEN Append(agg, NewBucket(entry.id)) ELSE agg
        k == BucketIndex(touched, entry.id)
    IN  [touched EXCEPT ![k] =
            [@ EXCEPT !.name = IF fresh THEN entry.name ELSE @,
                      !.description = IF fresh THEN entry.description ELSE @,
                      !.type = IF fresh THEN type ELSE @,
                      !.occupations = Append(@, [code |-> code,
                                                 title |-> title,
                                                 importance |-> entry.importance,
                                                 level |-> entry.level])]]

\* the four assignments one entry of a profile makes to its bucket
AddEntry(agg, entry, type, code, title) ==
    LET touched == IF BucketIndex(agg, entry.id) = 0
                   THEN Append(agg, NewBucket(entry.id))
                   ELSE agg
        k == BucketIndex(touched, entry.id)
    IN  [touched EXCEPT ![k] =
            [@ EXCEPT !.name = entry.name,
                      !.description = entry.description,
                      !.type = type,
                      !.occupations = Append(@, [code |-> code,
                                                 title |-> title,
                                                 importance |-> entry.importance,
                                                 level |-> entry.level])]]

RECURSIVE AddEntries(_, _, _, _, _)
AddEntries(agg, entries, type, code, title) ==
    IF entries = <<>> THEN agg
    ELSE AddEntries(AddEntry(agg, Head(entries), type, code, title),
                    Tail(entries), type, code, title)

\* one iteration of the loop over onet_data.items()
AddProfile(agg, item) ==
    LET d == item.details
        a1 == AddEntries(agg, d.skills, "skill", item.key, d.title)
        a2 == AddEntries(a1, d.knowledge, "knowledge", item.key, d.title)
    IN  AddEntries(a2, d.abilities, "ability", item.key, d.title)

RECURSIVE Aggregate(_, _)
Aggregate(agg, items) ==
    IF items = <<>> THEN agg ELSE Aggregate(AddProfile(agg, Head(items)), Tail(items))

\* skill_docs: one document per bucket, in the order of the buckets
SkillDocs(items, time, ties) ==
    LET agg == Aggregate(<<>>, items)
    IN  [k \in 1..Len(agg) |->
            transform_skill_document(agg[k].key, agg[k].name, agg[k].type,
                                     agg[k].description, agg[k].occupations,
                                     time, ties[k])]

\* _build_skills_collection up to its call of index_documents
BuildSkills(items, time) ==
    \E ties \in [1..Len(Aggregate(<<>>, items)) -> BOOLEAN] :
        StartIndex("skills", SkillDocs(items, time, ties), 0)

(***************************************************************************)
(* Inputs of the skill aggregation builder                                 *)
(***************************************************************************)
\* the versioned code of the k-th occupation of a run
OnetCodeOf(k) == PyStr(<<"1", "5", "-", "1", "2", "5", DigitSeq[k + 1], ".", "0", "0">>)

Reading(importance, level) == Sk(Id_2A1a, "Reading Comprehension", importance, level, "skill")

\* the profiles a fetch can return for one code: none of its entries, the
\* same skill with each kind of score, a second item under another id, two
\* entries that came without an id, and a knowledge item under a skill's id
SkillProfiles(code) ==
    { Profile(code, <<>>, <<>>, <<>>, 4, PyNone),
      Profile(code, <<Reading(400, PyFloat(300))>>, <<>>, <<>>, 4, PyNone),
      Profile(code, <<Reading(0, PyNone)>>, <<>>, <<>>, 4, PyNone),
      Profile(code, <<Reading(200, PyFloat(0))>>, <<>>, <<>>, 4, PyNone),
      Profile(code, <<Reading(301, PyFloat(450))>>,
              <<Sk(Id_2C1a, "Administration", 400, PyFloat(301), "knowledge")>>, <<>>,
              4, PyNone),
      Profile(code, <<Sk(<<>>, "Unnamed skill", 300, PyNone, "skill")>>, <<>>,
              <<Sk(<<>>, "Unnamed ability", 500, PyFloat(200), "ability")>>, 4, PyNone),
      Profile(code, <<>>,
              <<Sk(Id_2A1a, "Reading Knowledge", 400, PyFloat(300), "knowledge")>>, <<>>,
              4, PyNone) }

ProfileMaps ==
    UNION { { m \in [1..n -> UNION {{[key |-> OnetCodeOf(k), details |-> p] :
                                        p \in SkillProfiles(OnetCodeOf(k))} : k \in 1..n}] :
                \A k \in 1..n : m[k].key = OnetCodeOf(k) } : n \in 0..MaxProfiles }

InitSkills ==
    /\ SeriesIdle
    /\ PipeIdle
    /\ RerunIdle
    /\ FetchIdle
    /\ NormIdle
    /\ ConvIdle
    /\ TransIdle
    /\ collection_name = "none"
    /\ documents = <<>>
    /\ batch_size = 0
    /\ i = 0
    /\ total_success = 0
    /\ total_failed = 0
    /\ import_calls = <<>>
    /\ ipc = "idle"
    /\ store = [c \in Collections |-> [exists |-> TRUE, docs |-> EmptyDocs]]
    /\ settings_batch_size \in 1..MaxBatch
    /\ onet_data \in ProfileMaps
    /\ spc = "start"

BuildSkillsCollection ==
    /\ spc = "start"
    /\ BuildSkills(onet_data, now)
    /\ spc' = "indexing"
    /\ UNCHANGED onet_data
    /\ UNCHANGED IndexOthers

SkillsIndexStep ==
    /\ spc = "indexing"
    /\ ImportChunk
    /\ UNCHANGED skillVars
    /\ UNCHANGED IndexOthers

SkillsIndexDone ==
    /\ spc = "indexing"
    /\ IndexReturn
    /\ spc' = "done"
    /\ UNCHANGED onet_data
    /\ UNCHANGED IndexOthers

NextSkills == BuildSkillsCollection \/ SkillsIndexStep \/ SkillsIndexDone

SpecSkills == InitSkills /\ [][NextSkills]_vars

(***************************************************************************)
(* Bulk transforms and location wage documents                             *)
(***************************************************************************)
\* a downloaded table: its column names and its rows, each row a dict over
\* the columns
Frame(columns, rows) == [columns |-> columns, rows |-> rows]

\* xs filtered by a test, order kept
RECURSIVE Filter(_, _)
Filter(xs, keep) ==
    IF xs = <<>> THEN <<>>
    ELSE IF Head(xs) \in keep THEN <<Head(xs)>> \o Filter(Tail(xs), keep)
    ELSE Filter(Tail(xs), keep)

\* df[df["O_GROUP"] == "detailed"]
DetailedRows(df) ==
    Frame(df.columns, Filter(df.rows, {r \in Range(df.rows) : r["O_GROUP"] = Text("detailed")}))

\* if "O_GROUP" in df.columns: the detailed rows; else the table itself
FilterDetailed(df) == IF "O_GROUP" \in df.columns THEN DetailedRows(df) ELSE df

\* onet_data.get(key): the profiles of a run are kept in insertion order as
\* (key, details) pairs with distinct keys
Lookup(profiles, key) ==
    IF \E k \in 1..Len(profiles) : profiles[k].key = key
    THEN profiles[CHOOSE k \in 1..Len(profiles) : profiles[k].key = key].details
    ELSE NoProfile

\* onet_data[key] = details
Store(profiles, key, details) ==
    IF \E k \in 1..Len(profiles) : profiles[k].key = key
    THEN [k \in 1..Len(profiles) |->
            IF profiles[k].key = key THEN [key |-> key, details |-> details]
            ELSE profiles[k]]
    ELSE Append(profiles, [key |-> key, details |-> details])

\* the outcome of a loop that appends one document per row: the first
\* exception a row raised, or the list of documents
Collect(outcomes) ==
    IF \E k \in 1..Len(outcomes) : outcomes[k].exc # "none"
    THEN Raise(outcomes[CHOOSE k \in 1..Len(outcomes) :
                          /\ outcomes[k].exc # "none"
                          /\ \A j \in 1..(k - 1) : outcomes[j].exc = "none"].exc)
    ELSE Return([k \in 1..Len(outcomes) |-> outcomes[k].ret])

\* a lookup that falls back on whichever profile was loaded first
OnetDetailsAny(row, profiles) ==
    IF profiles # <<>> THEN profiles[1].details ELSE NoProfile

\* onet_data.get(f"{soc_code}.00") or onet_data.get(soc_code)
OnetDetailsFor(row, profiles) ==
    LET soc == _normalize_soc_code(Get(row, "OCC_CODE", PyStr(<<>>)))
        by_onet_code == Lookup(profiles, to_versioned(soc))
    IN  IF by_onet_code # NoProfile THEN by_onet_code ELSE Lookup(profiles, soc)

transform_bulk_occupations(bls_df, profiles, time) ==
    Collect([k \in 1..Len(bls_df.rows) |->
               transform_occupation(bls_df.rows[k],
                                    OnetDetailsFor(bls_df.rows[k], profiles), time)])

_extract_state_code(area_code, area_type) ==
    IF area_type = "state" /\ Len(area_code) >= 2
    THEN PyStr(Slice(area_code, 0, 2))
    ELSE PyStr(<<>>)

_extract_state_name(wage_data, area_type) ==
    IF area_type = "state" THEN Get(wage_data, "AREA_TITLE", PyStr(<<>>)) ELSE PyStr(<<>>)

\* the numeric columns of a location row and the document fields they fill
LocationFields ==
    [employment_per_1000 |-> "JOBS_1000",
     location_quotient |-> "LOC_QUOTIENT",
     hourly_mean_wage |-> "H_MEAN",
     hourly_median_wage |-> "H_MEDIAN",
     hourly_pct_10 |-> "H_PCT10",
     hourly_pct_25 |-> "H_PCT25",
     hourly_pct_75 |-> "H_PCT75",
     hourly_pct_90 |-> "H_PCT90",
     annual_mean_wage |-> "A_MEAN",
     annual_median_wage |-> "A_MEDIAN",
     annual_pct_10 |-> "A_PCT10",
     annual_pct_25 |-> "A_PCT25",
     annual_pct_75 |-> "A_PCT75",
     annual_pct_90 |-> "A_PCT90"]

\* data_year and last_updated are both read from the clock
transform_wage_by_location(wage_data, area_type, time) ==
    LET soc == _normalize_soc_code(Get(wage_data, "OCC_CODE", PyStr(<<>>)))
        area_code == str(Get(wage_data, "AREA", PyStr(<<>>)))
        emp == _safe_int(Get(wage_data, "TOT_EMP", PyNone), PyInt(0))
        num == [f \in DOMAIN LocationFields |->
                   _safe_float(Get(wage_data, LocationFields[f], PyNone), PyFloat(0))]
        doc == Update(
                 [id |-> PyStr(str(soc) \o <<"_">> \o area_code),
                  soc_code |-> soc,
                  occupation_title |-> Get(wage_data, "OCC_TITLE", PyStr(<<>>)),
                  area_type |-> area_type,
                  area_code |-> PyStr(area_code),
                  area_title |-> Get(wage_data, "AREA_TITLE", PyStr(<<>>)),
                  state_code |-> _extract_state_code(area_code, area_type),
                  state_name |-> _extract_state_name(wage_data, area_type),
                  employment |-> emp.ret,
                  data_year |-> time,
                  last_updated |-> time],
                 [f \in DOMAIN LocationFields |-> num[f].ret])
        escaped == Raised({emp} \cup {num[f] : f \in DOMAIN LocationFields})
    IN  IF escaped # {} THEN Raise(CHOOSE e \in escaped : TRUE) ELSE Return(doc)

transform_bulk_wages(wage_df, area_type, time) ==
    Collect([k \in 1..Len(wage_df.rows) |->
               transform_wage_by_location(wage_df.rows[k], area_type, time)])

\* bls_df["OCC_CODE"].unique(): the distinct cells in order of first appearance
RECURSIVE Unique(_)
Unique(xs) ==
    IF xs = <<>> THEN <<>>
    ELSE LET front == Unique(SubSeq(xs, 1, Len(xs) - 1))
             last == xs[Len(xs)]
         IN  IF \E k \in 1..Len(front) : front[k] = last THEN front
             ELSE Append(front, last)

(***************************************************************************)
(* Inputs of the orchestrator                                              *)
(***************************************************************************)
NatRow(code, group, employment) ==
    [OCC_CODE |-> code, OCC_TITLE |-> Text("Analysts"), O_GROUP |-> Text(group),
     TOT_EMP |-> employment, A_MEDIAN |-> PyInt(75000)]

\* rows of the national table: one occupation in two styles, a second
\* occupation, a code too short to normalize, a summary row, a row whose
\* employment cell reads as infinity, a row whose code cell is empty
NationalTable ==
    << NatRow(PyStr(C_15_1252), "detailed", PyInt(1000)),
       NatRow(PyStr(C_151252), "detailed", PyStr(<<"*", "*">>)),
       NatRow(PyStr(C_29_1141), "detailed", PyInt(1000)),
       NatRow(PyStr(C_ab), "detailed", PyInt(1000)),
       NatRow(PyStr(<<"1", "1", "-", "0", "0", "0", "0">>), "major", PyInt(1000)),
       NatRow(PyStr(C_15_1252), "detailed", PyStr(<<"i", "n", "f">>)),
       NatRow(PyNaN, "detailed", PyInt(1000)) >>

\* the rows of xs at the positions in S, in the order of xs
Pick(xs, S) ==
    LET F[k \in 0..Len(xs)] ==
            IF k = 0 THEN <<>>
            ELSE IF k \in S THEN Append(F[k - 1], xs[k]) ELSE F[k - 1]
    IN  F[Len(xs)]

\* the tables of at most n rows taken from xs
Excerpts(xs, n) == {Pick(xs, S) : S \in {T \in SUBSET (1..Len(xs)) : Cardinality(T) <= n}}

WithoutColumn(row, column) == [c \in DOMAIN row \ {column} |-> row[c]]

NationalColumns == {"OCC_CODE", "OCC_TITLE", "O_GROUP", "TOT_EMP", "A_MEDIAN"}

\* the tables a national download can return, with and without the O_GROUP
\* column
NationalFrames ==
    {Frame(NationalColumns, rows) : rows \in Excerpts(NationalTable, MaxRows)}
    \cup {Frame(NationalColumns \ {"O_GROUP"},
                [k \in 1..Len(rows) |-> WithoutColumn(rows[k], "O_GROUP")]) :
            rows \in Excerpts(NationalTable, MaxRows)}

LocRow(code, area, title, employment) ==
    [OCC_CODE |-> code, OCC_TITLE |-> Text("Analysts"), O_GROUP |-> Text("detailed"),
     AREA |-> PyStr(area), AREA_TITLE |-> Text(title), TOT_EMP |-> employment,
     A_MEDIAN |-> PyInt(70000)]

LocationColumns ==
    {"OCC_CODE", "OCC_TITLE", "O_GROUP", "AREA", "AREA_TITLE", "TOT_EMP", "A_MEDIAN"}

\* the tables a state or metro download can return
LocationFrames(area, title) ==
    { Frame(LocationColumns, <<LocRow(PyStr(C_15_1252), area, title, PyInt(500))>>),
      Frame(LocationColumns, <<LocRow(PyStr(C_15_1252), area, title, PyInf)>>) }

StateFrames == LocationFrames(<<"0", "1">>, "Alabama")
MetroFrames == LocationFrames(<<"1", "0", "1", "8", "0">>, "Abilene, TX")

\* the profiles a fetch of one code can return
FetchedProfiles(onet_code) ==
    { Profile(onet_code, <<Reading(400, PyFloat(300))>>, <<>>, <<>>, 4, PyNone),
      Profile(onet_code, <<>>, <<>>, <<>>, 4, PyNone) }

\* a document left in the occupations collection by an earlier run
StaleOccupation ==
    transform_occupation(
        NatRow(PyStr(<<"1", "1", "-", "1", "0", "1", "1">>), "detailed", PyInt(200)),
        NoProfile, 0).ret

\* the store before the call: no collection yet, or the three collections with
\* what an earlier run left
InitialStores ==
    { [c \in Collections |-> [exists |-> FALSE, docs |-> EmptyDocs]],
      [c \in Collections |->
          [exists |-> TRUE,
           docs |-> IF c = "occupations" THEN Upsert(EmptyDocs, StaleOccupation)
                    ELSE EmptyDocs]] }

(***************************************************************************)
(* Orchestrator: run_full_refresh and check_and_update_oews                *)
(***************************************************************************)
Schemas == <<"occupations", "occupation_wages_by_location", "skills">>

\* results[key] = x
Put(d, key, x) == [k \in DOMAIN d \cup {key} |-> IF k = key THEN x ELSE d[k]]

\* what index_documents returned
Counters == [success |-> total_success, failed |-> total_failed]

\* {"success": 0, "failed": 0, "error": str(e)}
ErrorResult(e) == [success |-> 0, failed |-> 0, error |-> e]

\* an orchestrator that notes the exception and goes on to its last stage
EscapeSwallowed(e) ==
    /\ raised' = e
    /\ ppc' = "skills"

\* an exception leaves the orchestrator
Escape(e) ==
    /\ raised' = e
    /\ ppc' = "raised"

InitPipeline ==
    /\ SeriesIdle
    /\ RerunIdle
    /\ FetchIdle
    /\ NormIdle
    /\ ConvIdle
    /\ TransIdle
    /\ SkillIdle
    /\ collection_name = "none"
    /\ documents = <<>>
    /\ batch_size = 0
    /\ i = 0
    /\ total_success = 0
    /\ total_failed = 0
    /\ import_calls = <<>>
    /\ ipc = "idle"
    /\ store \in InitialStores
    /\ settings_batch_size \in {1, MaxBatch}
    /\ operation = "none"
    /\ drop_existing = FALSE
    /\ include_onet = FALSE
    /\ include_location_wages = FALSE
    /\ ppc = "start"
    /\ schema_i = 0
    /\ national_df = NoFrame
    /\ detailed_df = NoFrame
    /\ soc_codes = <<>>
    /\ code_i = 0
    /\ onet_calls = <<>>
    /\ results = NoResults
    /\ raised = "none"
    /\ clock = 1

\* run_full_refresh is called: results = {"started": ...}
RunFullRefresh ==
    /\ ppc = "start"
    /\ operation' = "run_full_refresh"
    /\ drop_existing' \in BOOLEAN
    /\ include_onet' \in BOOLEAN
    /\ include_location_wages' \in BOOLEAN
    /\ results' = [started |-> clock]
    /\ ppc' = "provision"
    /\ UNCHANGED <<schema_i, national_df, detailed_df, soc_codes, code_i, onet_calls,
                   raised, clock>>
    /\ UNCHANGED <<indexVars, onet_data>>
    /\ UNCHANGED PipeOthers

\* the collection after create_collection deleted it (when asked to)
Dropped(coll) == IF drop_existing THEN [exists |-> FALSE, docs |-> EmptyDocs] ELSE coll

\* one iteration of create_all_collections: create_collection deletes the
\* collection when drop_existing (a missing one is not an error), then creates
\* it (an existing one is retrieved instead); any other store error escapes
CreateCollection ==
    /\ ppc = "provision"
    /\ LET name == Schemas[schema_i + 1]
       IN  \/ /\ drop_existing
              /\ Escape("StoreError")
              /\ UNCHANGED <<store, schema_i>>
           \/ /\ store' = [store EXCEPT ![name] = Dropped(@)]
              /\ Escape("StoreError")
              /\ UNCHANGED schema_i
           \/ /\ store' = [store EXCEPT ![name] = [Dropped(@) EXCEPT !.exists = TRUE]]
              /\ schema_i' = schema_i + 1
              /\ ppc' = IF schema_i + 1 = Len(Schemas) THEN "extract" ELSE "provision"
              /\ UNCHANGED raised
    /\ UNCHANGED <<operation, drop_existing, include_onet, include_location_wages,
                   national_df, detailed_df, soc_codes, code_i, onet_calls, results,
                   clock>>
    /\ UNCHANGED <<collection_name, documents, batch_size, i, total_success,
                   total_failed, import_calls, ipc, settings_batch_size, onet_data>>
    /\ UNCHANGED PipeOthers

\* the OCC_CODE column of a table
CodeColumn(df) == [k \in 1..Len(df.rows) |-> df.rows[k]["OCC_CODE"]]

\* get_national_data, the row count, the detailed filter and, when profiles
\* are wanted, the distinct codes _load_onet_data will walk
ExtractNational ==
    /\ ppc = "extract"
    /\ \/ /\ Escape("SourceError")
          /\ UNCHANGED <<national_df, detailed_df, soc_codes, results>>
       \/ \E df \in NationalFrames :
             /\ national_df' = df
             /\ results' = Put(results, "bls_national_records", Len(df.rows))
             /\ detailed_df' = FilterDetailed(df)
             /\ soc_codes' = IF include_onet THEN Unique(CodeColumn(FilterDetailed(df)))
                             ELSE <<>>
             /\ ppc' = IF include_onet THEN "load_onet" ELSE "occupations"
             /\ UNCHANGED raised
    /\ UNCHANGED <<operation, drop_existing, include_onet, include_location_wages,
                   schema_i, code_i, onet_calls, clock>>
    /\ UNCHANGED <<indexVars, onet_data>>
    /\ UNCHANGED PipeOthers

\* f"{normalized[:2]}-{normalized[2:6]}.00"
OnetCodeFor(normalized) ==
    PyStr(Slice(normalized, 0, 2) \o <<"-">> \o Slice(normalized, 2, 6) \o <<".", "0", "0">>)

\* one iteration of the loop of _load_onet_data
LoadOnetStep ==
    /\ ppc = "load_onet"
    /\ code_i < Len(soc_codes)
    /\ LET code == soc_codes[code_i + 1]
           normalized == Replace(Replace(code.s, "-"), ".")
       IN  IF code.t # "str"
           THEN /\ Escape("AttributeError")
                /\ UNCHANGED <<code_i, onet_calls, onet_data>>
           ELSE /\ code_i' = code_i + 1
                /\ UNCHANGED <<ppc, raised>>
                /\ IF Len(normalized) >= 6
                   THEN /\ onet_calls' = Append(onet_calls, OnetCodeFor(normalized))
                        /\ \/ UNCHANGED onet_data
                           \/ \E details \in FetchedProfiles(OnetCodeFor(normalized)) :
                                 onet_data' = Store(onet_data, OnetCodeFor(normalized),
                                                    details)
                   ELSE UNCHANGED <<onet_calls, onet_data>>
    /\ UNCHANGED <<operation, drop_existing, include_onet, include_location_wages,
                   schema_i, national_df, detailed_df, soc_codes, results, clock>>
    /\ UNCHANGED indexVars
    /\ UNCHANGED PipeOthers

\* _load_onet_data returns
LoadOnetDone ==
    /\ ppc = "load_onet"
    /\ code_i >= Len(soc_codes)
    /\ results' = Put(results, "onet_occupations_loaded", Len(onet_data))
    /\ ppc' = "occupations"
    /\ UNCHANGED <<operation, drop_existing, include_onet, include_location_wages,
                   schema_i, national_df, detailed_df, soc_codes, code_i, onet_calls,
                   raised, clock>>
    /\ UNCHANGED <<indexVars, onet_data>>
    /\ UNCHANGED PipeOthers

\* transform_bulk_occupations and the call of index_documents("occupations")
LoadOccupations ==
    /\ ppc = "occupations"
    /\ LET docs == transform_bulk_occupations(detailed_df, onet_data, clock)
       IN  IF docs.exc # "none"
           THEN /\ Escape(docs.exc)
                /\ UNCHANGED indexVars
           ELSE /\ StartIndex("occupations", docs.ret, 0)
                /\ ppc' = "occupations_indexing"
                /\ UNCHANGED raised
    /\ UNCHANGED <<operation, drop_existing, include_onet, include_location_wages,
                   schema_i, national_df, detailed_df, soc_codes, code_i, onet_calls,
                   results, clock>>
    /\ UNCHANGED onet_data
    /\ UNCHANGED PipeOthers

Indexing == {"occupations_indexing", "state_indexing", "metro_indexing",
             "skills_indexing", "update_indexing"}

\* one chunk of whichever index_documents call is in progress
PipelineImport ==
    /\ ppc \in Indexing
    /\ ImportChunk
    /\ UNCHANGED pipeVars
    /\ UNCHANGED onet_data
    /\ UNCHANGED PipeOthers

\* an orchestrator that loads the metro wages right after the occupations
OccupationsIndexedThenMetro ==
    /\ ppc = "occupations_indexing"
    /\ IndexReturn
    /\ results' = Put(results, "occupations_indexed", Counters)
    /\ ppc' = IF include_location_wages THEN "metro" ELSE "skills"
    /\ UNCHANGED <<operation, drop_existing, include_onet, include_location_wages,
                   schema_i, national_df, detailed_df, soc_codes, code_i, onet_calls,
                   raised, clock>>
    /\ UNCHANGED onet_data
    /\ UNCHANGED PipeOthers

\* index_documents("occupations") has returned: results["occupations_indexed"]
OccupationsIndexed ==
    /\ ppc = "occupations_indexing"
    /\ IndexReturn
    /\ results' = Put(results, "occupations_indexed", Counters)
    /\ ppc' = IF include_location_wages THEN "state" ELSE "skills"
    /\ UNCHANGED <<operation, drop_existing, include_onet, include_location_wages,
                   schema_i, national_df, detailed_df, soc_codes, code_i, onet_calls,
                   raised, clock>>
    /\ UNCHANGED onet_data
    /\ UNCHANGED PipeOthers

\* a wage stage without its try block: a failed download or transform leaves
\* the orchestrator
LoadWagesRaising(frames, area_type, key, indexing, next) ==
    \/ /\ ppc' = "raised"
       /\ UNCHANGED <<results, indexVars>>
    \/ \E df \in frames :
          LET docs == transform_bulk_wages(FilterDetailed(df), area_type, clock)
          IN  IF docs.exc # "none"
              THEN /\ ppc' = "raised"
                   /\ UNCHANGED <<results, indexVars>>
              ELSE /\ StartIndex("occupation_wages_by_location", docs.ret, 0)
                   /\ ppc' = indexing
                   /\ UNCHANGED results

\* the body of _load_state_wages and _load_metro_wages up to the call of
\* index_documents: every exception of the download and of the transform is
\* turned into an error result
LoadWages(frames, area_type, key, indexing, next) ==
    \/ /\ results' = Put(results, key, ErrorResult("SourceError"))
       /\ ppc' = next
       /\ UNCHANGED indexVars
    \/ \E df \in frames :
          LET docs == transform_bulk_wages(FilterDetailed(df), area_type, clock)
          IN  IF docs.exc # "none"
              THEN /\ results' = Put(results, key, ErrorResult(docs.exc))
                   /\ ppc' = next
                   /\ UNCHANGED indexVars
              ELSE /\ StartIndex("occupation_wages_by_location", docs.ret, 0)
                   /\ ppc' = indexing
                   /\ UNCHANGED results

LoadStateWages ==
    /\ ppc = "state"
    /\ LoadWages(StateFrames, "state", "state_wages_indexed", "state_indexing", "metro")
    /\ UNCHANGED <<operation, drop_existing, include_onet, include_location_wages,
                   schema_i, national_df, detailed_df, soc_codes, code_i, onet_calls,
                   raised, clock>>
    /\ UNCHANGED onet_data
    /\ UNCHANGED PipeOthers

StateWagesIndexed ==
    /\ ppc = "state_indexing"
    /\ IndexReturn
    /\ results' = Put(results, "state_wages_indexed", Counters)
    /\ ppc' = "metro"
    /\ UNCHANGED <<operation, drop_existing, include_onet, include_location_wages,
                   schema_i, national_df, detailed_df, soc_codes, code_i, onet_calls,
                   raised, clock>>
    /\ UNCHANGED onet_data
    /\ UNCHANGED PipeOthers

LoadMetroWages ==
    /\ ppc = "metro"
    /\ LoadWages(MetroFrames, "metro", "metro_wages_indexed", "metro_indexing", "skills")
    /\ UNCHANGED <<operation, drop_existing, include_onet, include_location_wages,
                   schema_i, national_df, detailed_df, soc_codes, code_i, onet_calls,
                   raised, clock>>
    /\ UNCHANGED onet_data
    /\ UNCHANGED PipeOthers

MetroWagesIndexed ==
    /\ ppc = "metro_indexing"
    /\ IndexReturn
    /\ results' = Put(results, "metro_wages_indexed", Counters)
    /\ ppc' = "skills"
    /\ UNCHANGED <<operation, drop_existing, include_onet, include_location_wages,
                   schema_i, national_df, detailed_df, soc_codes, code_i, onet_calls,
                   raised, clock>>
    /\ UNCHANGED onet_data
    /\ UNCHANGED PipeOthers

\* a skills stage that runs whether or not a profile was loaded
LoadSkillsAlways ==
    /\ ppc = "skills"
    /\ BuildSkills(onet_data, clock)
    /\ ppc' = "skills_indexing"
    /\ UNCHANGED <<operation, drop_existing, include_onet, include_location_wages,
                   schema_i, national_df, detailed_df, soc_codes, code_i, onet_calls,
                   results, raised, clock>>
    /\ UNCHANGED onet_data
    /\ UNCHANGED PipeOthers

\* if include_onet and onet_data: _build_skills_collection up to its call of
\* index_documents
LoadSkills ==
    /\ ppc = "skills"
    /\ include_onet
    /\ onet_data # <<>>
    /\ BuildSkills(onet_data, clock)
    /\ ppc' = "skills_indexing"
    /\ UNCHANGED <<operation, drop_existing, include_onet, include_location_wages,
                   schema_i, national_df, detailed_df, soc_codes, code_i, onet_calls,
                   results, raised, clock>>
    /\ UNCHANGED onet_data
    /\ UNCHANGED PipeOthers

\* results["completed"] = ...; return results
Completed(summary) == Put(summary, "completed", clock)

\* no profile was wanted or none was loaded: the run completes
CompleteWithoutSkills ==
    /\ ppc = "skills"
    /\ ~(include_onet /\ onet_data # <<>>)
    /\ results' = Completed(results)
    /\ ppc' = "done"
    /\ UNCHANGED <<operation, drop_existing, include_onet, include_location_wages,
                   schema_i, national_df, detailed_df, soc_codes, code_i, onet_calls,
                   raised, clock>>
    /\ UNCHANGED <<indexVars, onet_data>>
    /\ UNCHANGED PipeOthers

SkillsIndexed ==
    /\ ppc = "skills_indexing"
    /\ IndexReturn
    /\ results' = Completed(Put(results, "skills_indexed", Counters))
    /\ ppc' = "done"
    /\ UNCHANGED <<operation, drop_existing, include_onet, include_location_wages,
                   schema_i, national_df, detailed_df, soc_codes, code_i, onet_calls,
                   raised, clock>>
    /\ UNCHANGED onet_data
    /\ UNCHANGED PipeOthers

\* get_collection_stats: a missing collection is reported, not raised, and
\* counts as no document
StatsCount(coll) == IF coll.exists THEN Cardinality(DOMAIN coll.docs) ELSE 0

\* check_and_update_oews is called and reads the current document count
CheckAndUpdateOews ==
    /\ ppc = "start"
    /\ operation' = "check_and_update_oews"
    /\ \/ /\ Escape("StoreError")
          /\ UNCHANGED results
       \/ /\ results' = [previous_count |-> StatsCount(store["occupations"])]
          /\ ppc' = "check_download"
          /\ UNCHANGED raised
    /\ UNCHANGED <<drop_existing, include_onet, include_location_wages, schema_i,
                   national_df, detailed_df, soc_codes, code_i, onet_calls, clock>>
    /\ UNCHANGED <<indexVars, onet_data>>
    /\ UNCHANGED PipeOthers

\* {"status": "error", "error": str(e)}
StatusError(e) == [status |-> "error", error |-> e]

\* the try block of check_and_update_oews up to the call of index_documents:
\* without an O_GROUP column the row selection raises KeyError
CheckDownload ==
    /\ ppc = "check_download"
    /\ \/ /\ results' = StatusError("SourceError")
          /\ ppc' = "done"
          /\ UNCHANGED <<national_df, detailed_df, indexVars>>
       \/ \E df \in NationalFrames :
             /\ national_df' = df
             /\ IF "O_GROUP" \notin df.columns
                THEN /\ results' = StatusError("KeyError")
                     /\ ppc' = "done"
                     /\ UNCHANGED <<detailed_df, indexVars>>
                ELSE IF Len(DetailedRows(df).rows) = 0
                THEN /\ results' = [status |-> "no_update_needed"]
                     /\ ppc' = "done"
                     /\ UNCHANGED <<detailed_df, indexVars>>
                ELSE LET docs == transform_bulk_occupations(DetailedRows(df), <<>>, clock)
                     IN  /\ detailed_df' = DetailedRows(df)
                         /\ IF docs.exc # "none"
                            THEN /\ results' = StatusError(docs.exc)
                                 /\ ppc' = "done"
                                 /\ UNCHANGED indexVars
                            ELSE /\ StartIndex("occupations", docs.ret, 0)
                                 /\ results' = Put(results, "new_count",
                                                   Len(DetailedRows(df).rows))
                                 /\ ppc' = "update_indexing"
    /\ UNCHANGED <<operation, drop_existing, include_onet, include_location_wages,
                   schema_i, soc_codes, code_i, onet_calls, raised, clock>>
    /\ UNCHANGED onet_data
    /\ UNCHANGED PipeOthers

UpdateIndexed ==
    /\ ppc = "update_indexing"
    /\ IndexReturn
    /\ results' = [status |-> "updated",
                   previous_count |-> results["previous_count"],
                   new_count |-> results["new_count"],
                   index_results |-> Counters]
    /\ ppc' = "done"
    /\ UNCHANGED <<operation, drop_existing, include_onet, include_location_wages,
                   schema_i, national_df, detailed_df, soc_codes, code_i, onet_calls,
                   raised, clock>>
    /\ UNCHANGED onet_data
    /\ UNCHANGED PipeOthers

Next ==
    \/ RunFullRefresh
    \/ CreateCollection
    \/ ExtractNational
    \/ LoadOnetStep
    \/ LoadOnetDone
    \/ LoadOccupations
    \/ PipelineImport
    \/ OccupationsIndexed
    \/ LoadStateWages
    \/ StateWagesIndexed
    \/ LoadMetroWages
    \/ MetroWagesIndexed
    \/ LoadSkills
    \/ CompleteWithoutSkills
    \/ SkillsIndexed
    \/ CheckAndUpdateOews
    \/ CheckDownload
    \/ UpdateIndexed

Spec == InitPipeline /\ [][Next]_vars

(***************************************************************************)
(* update_onet_data                                                        *)
(***************************************************************************)
\* the page size of the wildcard search of update_onet_data: 1000 in the
\* source (per_page=1000), kept small here so that a collection larger than one
\* page can be enumerated
PerPage == 2

\* the k-th occupation of an indexed collection
IndexedCode(k) == PyStr(<<"1", "5", "-", "1", "2", "5", DigitSeq[k + 1]>>)

\* the document an earlier run left for it: the first with its profile, the
\* others wage-only, each with its own employment
IndexedDoc(k) ==
    transform_occupation(
        NatRow(IndexedCode(k), "detailed", PyInt(100 * k)),
        IF k = 1
        THEN Profile(to_versioned(IndexedCode(k)), <<>>, <<>>, <<>>, 2, PyNone)
        ELSE NoProfile,
        0).ret

RECURSIVE IndexedDocs(_)
IndexedDocs(n) == IF n = 0 THEN EmptyDocs ELSE Upsert(IndexedDocs(n - 1), IndexedDoc(n))

\* the store before the call: the collections exist and occupations holds up
\* to one document more than a page
UpdateStores ==
    { [c \in Collections |->
          [exists |-> TRUE,
           docs |-> IF c = "occupations" THEN IndexedDocs(n) ELSE EmptyDocs]] :
      n \in 1..(PerPage + 1) }

\* the code lists a caller passes: one code, two codes, one code twice, a code
\* that is not indexed followed by one that is
CodeLists ==
    { <<IndexedCode(1)>>,
      <<IndexedCode(2), IndexedCode(1)>>,
      <<IndexedCode(1), IndexedCode(1)>>,
      <<PyStr(C_29_1141), IndexedCode(1)>> }

\* sort_by national_employment:desc
RECURSIVE ByEmployment(_)
ByEmployment(docs) ==
    IF docs = {} THEN <<>>
    ELSE LET top == CHOOSE d \in docs :
                       \A e \in docs : e["national_employment"].v <= d["national_employment"].v
         IN  <<top>> \o ByEmployment(docs \ {top})

\* search_occupations("*", per_page=per_page): the first page of the hits
search_occupations(docs, per_page) ==
    LET hits == ByEmployment({docs[k] : k \in DOMAIN docs})
    IN  [hits |-> [k \in 1..Min(per_page, Len(hits)) |-> [document |-> hits[k]]]]

\* [hit["document"]["soc_code"] for hit in results.get("hits", [])]
SocCodesOf(found) == [k \in 1..Len(found.hits) |-> found.hits[k].document["soc_code"]]

\* f"{soc_code}.00"
VersionedFor(code) == PyStr(str(code) \o <<".", "0", "0">>)

\* get_document: the stored document, or None when there is none
get_document(coll, document_id) ==
    IF coll.exists /\ document_id \in DOMAIN coll.docs THEN coll.docs[document_id] ELSE PyNone

\* a merge that rebuilds the document from the profile and keeps only the id
MergeOnetRebuilt(existing, details, time) ==
    Update(_transform_onet_data(details),
           [id |-> existing["id"], last_updated |-> time])

\* existing.update(onet_fields); existing["last_updated"] = now
MergeOnet(existing, details, time) ==
    Update(Update(existing, _transform_onet_data(details)), [last_updated |-> time])

InitUpdate ==
    /\ SeriesIdle
    /\ RerunIdle
    /\ FetchIdle
    /\ NormIdle
    /\ ConvIdle
    /\ TransIdle
    /\ SkillIdle
    /\ collection_name = "none"
    /\ documents = <<>>
    /\ batch_size = 0
    /\ i = 0
    /\ total_success = 0
    /\ total_failed = 0
    /\ import_calls = <<>>
    /\ ipc = "idle"
    /\ store \in UpdateStores
    /\ settings_batch_size \in {1, MaxBatch}
    /\ operation = "none"
    /\ drop_existing = FALSE
    /\ include_onet = FALSE
    /\ include_location_wages = FALSE
    /\ ppc = "start"
    /\ schema_i = 0
    /\ national_df = NoFrame
    /\ detailed_df = NoFrame
    /\ soc_codes = <<>>
    /\ code_i = 0
    /\ onet_calls = <<>>
    /\ results = NoResults
    /\ raised = "none"
    /\ clock = 1

\* update_onet_data is called with a code list, or with none
UpdateOnetData ==
    /\ ppc = "start"
    /\ operation' = "update_onet_data"
    /\ \/ /\ ppc' = "update_search"
          /\ UNCHANGED <<soc_codes, results>>
       \/ \E codes \in CodeLists :
             /\ soc_codes' = codes
             /\ results' = [updated |-> 0, failed |-> 0]
             /\ ppc' = "update_loop"
    /\ UNCHANGED <<drop_existing, include_onet, include_location_wages, schema_i,
                   national_df, detailed_df, code_i, onet_calls, raised, clock>>
    /\ UNCHANGED <<indexVars, onet_data>>
    /\ UNCHANGED PipeOthers

\* if soc_codes is None: the wildcard search, outside any try block
SearchAll ==
    /\ ppc = "update_search"
    /\ \/ /\ Escape("StoreError")
          /\ UNCHANGED <<soc_codes, results>>
       \/ /\ soc_codes' = SocCodesOf(search_occupations(store["occupations"].docs, PerPage))
          /\ results' = [updated |-> 0, failed |-> 0]
          /\ ppc' = "update_loop"
          /\ UNCHANGED raised
    /\ UNCHANGED <<operation, drop_existing, include_onet, include_location_wages,
                   schema_i, national_df, detailed_df, code_i, onet_calls, clock>>
    /\ UNCHANGED <<indexVars, onet_data>>
    /\ UNCHANGED PipeOthers

\* failed_count += 1
CountFailed == results' = [results EXCEPT !.failed = @ + 1]

\* updated_count += 1
CountUpdated == results' = [results EXCEPT !.updated = @ + 1]

\* index_documents(name, [doc]): a single chunk, whose import raises or answers
IndexOne(name, doc, outcome) ==
    /\ collection_name' = name
    /\ documents' = <<doc>>
    /\ batch_size' = EffectiveBatchSize(0, settings_batch_size)
    /\ i' = EffectiveBatchSize(0, settings_batch_size)
    /\ import_calls' = <<[batch |-> <<doc>>, outcome |-> outcome]>>
    /\ total_success' = SuccessOfChunk(outcome, <<doc>>)
    /\ total_failed' = FailedOfChunk(outcome, <<doc>>)
    /\ store' = IF outcome.raised THEN store
                ELSE [store EXCEPT ![name].docs = ApplyBatch(@, <<doc>>, outcome.results)]
    /\ ipc' = "returned"
    /\ UNCHANGED settings_batch_size

\* one iteration of the loop of update_onet_data: the profile fetch, the read
\* of the stored document, the merge and the write, all inside one try block
\* whose except clause counts a failure; the result of index_documents is not
\* looked at
UpdateOnetStep ==
    /\ ppc = "update_loop"
    /\ code_i < Len(soc_codes)
    /\ LET code == soc_codes[code_i + 1]
           onet_code == VersionedFor(code)
           existing == get_document(store["occupations"], code)
       IN  /\ onet_calls' = Append(onet_calls, onet_code)
           /\ \/ /\ CountFailed
                 /\ UNCHANGED indexVars
              \/ /\ existing = PyNone
                 /\ UNCHANGED <<results, indexVars>>
              \/ /\ existing # PyNone
                 /\ \E details \in FetchedProfiles(onet_code) :
                      \E outcome \in ImportOutcomes(<<MergeOnet(existing, details, clock)>>,
                                                    store["occupations"].exists) :
                         IndexOne("occupations", MergeOnet(existing, details, clock), outcome)
                 /\ CountUpdated
    /\ code_i' = code_i + 1
    /\ UNCHANGED <<operation, drop_existing, include_onet, include_location_wages,
                   schema_i, national_df, detailed_df, soc_codes, ppc, raised, clock>>
    /\ UNCHANGED onet_data
    /\ UNCHANGED PipeOthers

\* return {"status": "completed", "updated": ..., "failed": ...}
UpdateOnetReturn ==
    /\ ppc = "update_loop"
    /\ code_i >= Len(soc_codes)
    /\ results' = [status |-> "completed", updated |-> results.updated,
                   failed |-> results.failed]
    /\ ppc' = "done"
    /\ UNCHANGED <<operation, drop_existing, include_onet, include_location_wages,
                   schema_i, national_df, detailed_df, soc_codes, code_i, onet_calls,
                   raised, clock>>
    /\ UNCHANGED <<indexVars, onet_data>>
    /\ UNCHANGED PipeOthers

NextUpdate ==
    \/ UpdateOnetData
    \/ SearchAll
    \/ UpdateOnetStep
    \/ UpdateOnetReturn

SpecUpdate == InitUpdate /\ [][NextUpdate]_vars

(***************************************************************************)
(* get_complete_occupation                                                 *)
(***************************************************************************)
\* stop_after_attempt(3): the requests _get makes before it gives up
MaxAttempts == 3

\* the requests of get_complete_occupation, in the order it makes them; the
\* last is the second get_occupation, made by get_bright_outlook
SubCalls ==
    <<"occupation", "job_zone", "skills", "knowledge", "abilities",
      "technology_skills", "tasks", "education", "bright_outlook">>

\* no request is guarded
BestEffortNone == {}

\* the requests made inside a try block whose except clause gives a default
BestEffort == {"education", "bright_outlook"}

\* what each endpoint can answer, already parsed by its get_ method
Payloads(sub) ==
    CASE sub \in {"occupation", "bright_outlook"} ->
            { [title |-> Text("Software Developers"),
               description |-> Text("Develop software"),
               tags |-> [bright_outlook |-> TRUE]],
              [tags |-> NoResults] }
      [] sub = "job_zone" -> { [job_zone |-> [value |-> 4]], NoResults }
      [] sub = "skills" -> { <<>>, <<Reading(400, PyFloat(300))>> }
      [] sub \in {"knowledge", "abilities"} -> { <<>> }
      [] sub = "technology_skills" -> { <<[name |-> Text("Python"), hot_technology |-> TRUE]>> }
      [] sub = "tasks" ->
            { <<[id |-> Text("t1"), description |-> Text("Write code"),
                 importance |-> PyFloat(450)]>> }
      [] sub = "education" -> { [t |-> "dict", level |-> <<>>] }

\* try: education = get_education(code); except Exception: education = None
EducationOrNone(answer) == IF answer.exc # "none" THEN PyNone ELSE answer.ret

\* get_bright_outlook: the tag of the occupation, False when the request failed
get_bright_outlook(answer) ==
    IF answer.exc # "none" THEN FALSE
    ELSE LET tags == Get(answer.ret, "tags", NoResults)
         IN  "bright_outlook" \in DOMAIN tags \/ Get(tags, "bright_outlook", FALSE)

\* the OccupationDetails built from the answers
OccupationDetails(code, answers) ==
    [code |-> code,
     title |-> Get(answers["occupation"].ret, "title", PyStr(<<>>)),
     description |-> Get(answers["occupation"].ret, "description", PyStr(<<>>)),
     job_zone |-> Get(Get(answers["job_zone"].ret, "job_zone", NoResults), "value", 0),
     skills |-> answers["skills"].ret,
     knowledge |-> answers["knowledge"].ret,
     abilities |-> answers["abilities"].ret,
     technology_skills |-> answers["technology_skills"].ret,
     tasks |-> answers["tasks"].ret,
     education |-> EducationOrNone(answers["education"]),
     bright_outlook |-> get_bright_outlook(answers["bright_outlook"])]

InitFetch ==
    /\ SeriesIdle
    /\ PipeIdle
    /\ RerunIdle
    /\ IndexIdle
    /\ SkillIdle
    /\ NormIdle
    /\ ConvIdle
    /\ TransIdle
    /\ fetch_code = PyStr(C_15_1252_00)
    /\ fetch_pc = "start"
    /\ fetch_attempts = 0
    /\ fetch_answers = NoResults
    /\ fetch_outcome = NotCalled
    /\ fetch_requests = 0
    /\ fetch_delays = 0

\* get_complete_occupation is called and makes its first request
GetCompleteOccupation ==
    /\ fetch_pc = "start"
    /\ fetch_pc' = SubCalls[1]
    /\ UNCHANGED <<fetch_code, fetch_attempts, fetch_answers, fetch_outcome,
                   fetch_requests, fetch_delays>>
    /\ UNCHANGED FetchOthers

\* a get_ method has returned or raised: an exception of an unguarded request
\* leaves get_complete_occupation, any other outcome is kept and the next
\* request is made; after the last one the profile is built and returned
SubCallEnds(sub, answer) ==
    LET answers == Put(fetch_answers, sub, answer)
        k == CHOOSE n \in 1..Len(SubCalls) : SubCalls[n] = sub
    IN  /\ fetch_answers' = answers
        /\ fetch_attempts' = 0
        /\ IF answer.exc # "none" /\ sub \notin BestEffort
           THEN /\ fetch_pc' = "raised"
                /\ fetch_outcome' = Raise(answer.exc)
           ELSE IF k = Len(SubCalls)
           THEN /\ fetch_pc' = "returned"
                /\ fetch_outcome' = Return(OccupationDetails(fetch_code, answers))
           ELSE /\ fetch_pc' = SubCalls[k + 1]
                /\ UNCHANGED fetch_outcome

\* an attempt of _get that fails and is followed by another, whatever the
\* number of attempts already made
RequestRetried ==
    /\ fetch_pc \in Range(SubCalls)
    /\ fetch_attempts < MaxAttempts
    /\ fetch_requests' = fetch_requests + 1
    /\ fetch_attempts' = fetch_attempts + 1
    /\ UNCHANGED <<fetch_pc, fetch_answers, fetch_outcome, fetch_delays>>
    /\ UNCHANGED fetch_code
    /\ UNCHANGED FetchOthers

\* an attempt of _get fails: the request was sent and either it or
\* raise_for_status raised, before the delay, or response.json() raised, after
\* it; the retry wrapper makes the attempt again until the attempts are used
\* up, and then it raises
RequestFails ==
    /\ fetch_pc \in Range(SubCalls)
    /\ fetch_requests' = fetch_requests + 1
    /\ \E slept \in BOOLEAN :
          fetch_delays' = IF slept THEN fetch_delays + 1 ELSE fetch_delays
    /\ IF fetch_attempts + 1 < MaxAttempts
       THEN /\ fetch_attempts' = fetch_attempts + 1
            /\ UNCHANGED <<fetch_pc, fetch_answers, fetch_outcome>>
       ELSE SubCallEnds(fetch_pc, Raise("RetryError"))
    /\ UNCHANGED fetch_code
    /\ UNCHANGED FetchOthers

\* an attempt of _get succeeds: the response is good, the delay is slept and
\* the parsed body is returned
RequestAnswers ==
    /\ fetch_pc \in Range(SubCalls)
    /\ \E payload \in Payloads(fetch_pc) : SubCallEnds(fetch_pc, Return(payload))
    /\ fetch_requests' = fetch_requests + 1
    /\ fetch_delays' = fetch_delays + 1
    /\ UNCHANGED fetch_code
    /\ UNCHANGED FetchOthers

NextFetch ==
    \/ GetCompleteOccupation
    \/ RequestFails
    \/ RequestAnswers

SpecFetch == InitFetch /\ [][NextFetch]_vars

(***************************************************************************)
(* run_full_refresh, run twice on the same source data                     *)
(***************************************************************************)
\* what the sources hold for both runs: the national table, whether the
\* profile service answers and with what, and the state and metro tables
\* (NoFrame when the download fails)
Sources ==
    [national : {Frame(NationalColumns, <<NationalTable[1]>>),
                 Frame(NationalColumns, <<NationalTable[1], NationalTable[3]>>)},
     fetch : {"fails", "plain", "skilled"},
     state : StateFrames \cup {NoFrame},
     metro : {CHOOSE df \in MetroFrames : df.rows[1]["TOT_EMP"] # PyInf, NoFrame}]

\* what the profile service answers for a code
FetchFrom(src, onet_code) ==
    IF src.fetch = "fails" THEN NoProfile
    ELSE CHOOSE details \in FetchedProfiles(onet_code) :
            (details.skills = <<>>) <=> (src.fetch = "plain")

InitRerun ==
    /\ SeriesIdle
    /\ FetchIdle
    /\ NormIdle
    /\ ConvIdle
    /\ TransIdle
    /\ SkillIdle
    /\ collection_name = "none"
    /\ documents = <<>>
    /\ batch_size = 0
    /\ i = 0
    /\ total_success = 0
    /\ total_failed = 0
    /\ import_calls = <<>>
    /\ ipc = "idle"
    /\ store = [c \in Collections |-> [exists |-> FALSE, docs |-> EmptyDocs]]
    /\ settings_batch_size = MaxBatch
    /\ operation = "none"
    /\ drop_existing = FALSE
    /\ include_onet = FALSE
    /\ include_location_wages = FALSE
    /\ ppc = "start"
    /\ schema_i = 0
    /\ national_df = NoFrame
    /\ detailed_df = NoFrame
    /\ soc_codes = <<>>
    /\ code_i = 0
    /\ onet_calls = <<>>
    /\ results = NoResults
    /\ raised = "none"
    /\ clock = 1
    /\ source \in Sources
    /\ run = 1
    /\ first = NoResults

\* the national download of either run returns the table the source holds
RerunExtractNational ==
    /\ ExtractNational
    /\ national_df' = source.national

\* the profile request of either run gets what the service holds for the code
RerunLoadOnetStep ==
    /\ LoadOnetStep
    /\ onet_calls' # onet_calls =>
          LET onet_code == onet_calls'[Len(onet_calls')]
          IN  onet_data' = IF FetchFrom(source, onet_code) = NoProfile THEN onet_data
                           ELSE Store(onet_data, onet_code, FetchFrom(source, onet_code))

\* the wage download of either run returns the table the source holds, or
\* fails when the source has none
SameWages(df, area_type, key) ==
    IF df = NoFrame
    THEN key \in DOMAIN results' /\ results'[key] = ErrorResult("SourceError")
    ELSE LET docs == transform_bulk_wages(FilterDetailed(df), area_type, clock)
         IN  IF docs.exc # "none"
             THEN key \in DOMAIN results' /\ results'[key] = ErrorResult(docs.exc)
             ELSE ppc' \in Indexing /\ documents' = docs.ret

RerunLoadStateWages ==
    /\ LoadStateWages
    /\ SameWages(source.state, "state", "state_wages_indexed")

RerunLoadMetroWages ==
    /\ LoadMetroWages
    /\ SameWages(source.metro, "metro", "metro_wages_indexed")

\* the first run has returned and run_full_refresh is called again, a moment
\* later, with the same options except that nothing is dropped
Rerun ==
    /\ ppc = "done"
    /\ run = 1
    /\ run' = 2
    /\ first' = [store |-> store, results |-> results, clock |-> clock]
    /\ clock' = clock + 1
    /\ drop_existing' = FALSE
    /\ results' = [started |-> clock + 1]
    /\ ppc' = "provision"
    /\ schema_i' = 0
    /\ national_df' = NoFrame
    /\ detailed_df' = NoFrame
    /\ soc_codes' = <<>>
    /\ code_i' = 0
    /\ onet_calls' = <<>>
    /\ onet_data' = <<>>
    /\ UNCHANGED <<operation, include_onet, include_location_wages, raised, source>>
    /\ UNCHANGED indexVars
    /\ UNCHANGED <<normVars, convVars, transVars, spc, fetchVars, seriesVars>>

NextRerun ==
    \/ RunFullRefresh
    \/ CreateCollection
    \/ RerunExtractNational
    \/ RerunLoadOnetStep
    \/ LoadOnetDone
    \/ LoadOccupations
    \/ PipelineImport
    \/ OccupationsIndexed
    \/ RerunLoadStateWages
    \/ StateWagesIndexed
    \/ RerunLoadMetroWages
    \/ MetroWagesIndexed
    \/ LoadSkills
    \/ CompleteWithoutSkills
    \/ SkillsIndexed
    \/ Rerun

SpecRerun == InitRerun /\ [][NextRerun]_vars

(***************************************************************************)
(* run_full_refresh up to the national extraction                          *)
(***************************************************************************)
\* the store the call finds is kept in first
InitProvision ==
    /\ SeriesIdle
    /\ FetchIdle
    /\ NormIdle
    /\ ConvIdle
    /\ TransIdle
    /\ SkillIdle
    /\ collection_name = "none"
    /\ documents = <<>>
    /\ batch_size = 0
    /\ i = 0
    /\ total_success = 0
    /\ total_failed = 0
    /\ import_calls = <<>>
    /\ ipc = "idle"
    /\ store \in InitialStores
    /\ settings_batch_size = MaxBatch
    /\ operation = "none"
    /\ drop_existing = FALSE
    /\ include_onet = FALSE
    /\ include_location_wages = FALSE
    /\ ppc = "start"
    /\ schema_i = 0
    /\ national_df = NoFrame
    /\ detailed_df = NoFrame
    /\ soc_codes = <<>>
    /\ code_i = 0
    /\ onet_calls = <<>>
    /\ results = NoResults
    /\ raised = "none"
    /\ clock = 1
    /\ source = NoResults
    /\ run = 1
    /\ first = [store |-> store]

NextProvision ==
    \/ RunFullRefresh
    \/ CreateCollection
    \/ ExtractNational

SpecProvision == InitProvision /\ [][NextProvision]_vars

(***************************************************************************)
(* Properties                                                              *)
(***************************************************************************)
DigitsOf(s) == SelectSeq(s, LAMBDA c : c \in Digits)

\* XX-XXXX: two digits, a hyphen, four digits
Canonical(x) ==
    /\ x.t = "str"
    /\ Len(x.s) = 7
    /\ x.s[3] = "-"
    /\ \A k \in {1, 2, 4, 5, 6, 7} : x.s[k] \in Digits

SumSeq(xs, f(_)) ==
    LET S[k \in 0..Len(xs)] == IF k = 0 THEN 0 ELSE S[k - 1] + f(xs[k])
    IN  S[Len(xs)]

RECURSIVE Concat(_)
Concat(xss) == IF xss = <<>> THEN <<>> ELSE Head(xss) \o Concat(Tail(xss))

\* C1: after any run_full_refresh or check_and_update_oews, every document in
\* the occupations collection has an id and a soc_code of the canonical form
\* (two digits, a hyphen, four digits): no row with a short, non-digit or
\* otherwise un-normalizable OCC_CODE yields a document keyed by another code
C1_OccupationKeysCanonical ==
    ppc = "done" =>
        \A key \in DOMAIN store["occupations"].docs :
            /\ Canonical(key)
            /\ Canonical(store["occupations"].docs[key].soc_code)

\* C2: for every input code, _normalize_soc_code returns the first two digits,
\* a hyphen and the next four digits when at least 6 digit characters remain
\* after removing hyphens, dots and surrounding whitespace, and the input itself
\* otherwise.
C2_NormalizeByDigits ==
    npc \in {"normalized", "renormalized"} =>
        LET d == DigitsOf(Strip(Replace(Replace(soc_code.s, "-"), ".")))
        IN  soc_norm = IF Len(d) >= 6
                       THEN PyStr(SubSeq(d, 1, 2) \o <<"-">> \o SubSeq(d, 3, 6))
                       ELSE soc_code

\* C3: _normalize_soc_code is idempotent: normalizing the normalized code gives
\* the normalized code, for every input code and so for every code of 6 or more
\* digits in any punctuation style.
C3_NormalizeIdempotent == npc = "renormalized" => soc_renorm = soc_norm

\* a padded, hyphenated code of six digits has been normalized twice
C3_Witness ==
    /\ npc = "renormalized"
    /\ soc_code = PyStr(<<" ">> \o C_15_1252 \o <<" ">>)
    /\ soc_norm = PyStr(C_15_1252)
    /\ soc_renorm = PyStr(C_15_1252)

\* C4: the document's onet_code is its soc_code followed by ".00", and
\* normalizing that versioned code gives back the soc_code, for every row.
C4_VersionedRoundTrip ==
    tpc = "done" /\ transformed.exc = "none" =>
        /\ transformed.ret.onet_code.s = str(transformed.ret.soc_code) \o <<".", "0", "0">>
        /\ _normalize_soc_code(transformed.ret.onet_code) = transformed.ret.soc_code

\* C5: _safe_float and _safe_int never raise; the suppression markers, None, NaN
\* and values that are not numeric give the default, and "1234.5" gives 1234.5.
C5_ConversionsNeverRaise ==
    cpc = "done" =>
        /\ conv_float.exc = "none"
        /\ conv_int.exc = "none"
        /\ value \in {PyNone, PyNaN, PyObj, PyStr(<<"*">>), PyStr(<<"*", "*">>),
                      PyStr(<<"#">>), PyStr(<<"a", "b", "c">>)}
              => conv_float.ret = default /\ conv_int.ret = default
        /\ value = PyStr(<<"1", "2", "3", "4", ".", "5">>) => conv_float.ret.v = 123450

\* C6: for a row without a profile transform_occupation does not raise, and its
\* document has the coerced employment and wage values and empty skills,
\* knowledge and abilities arrays.
C6_WageOnlyDocument ==
    tpc = "done" /\ onet_profile = NoProfile =>
        /\ transformed.exc = "none"
        /\ {"skills", "knowledge_areas", "abilities"} \subseteq DOMAIN transformed.ret
        /\ transformed.ret.skills = <<>>
        /\ transformed.ret.knowledge_areas = <<>>
        /\ transformed.ret.abilities = <<>>
        /\ (/\ bls_data.OCC_CODE = PyStr(C_151252)
            /\ bls_data.TOT_EMP = PyInt(1000)
            /\ bls_data.A_MEDIAN = PyInt(75000))
              => /\ transformed.ret.soc_code = PyStr(C_15_1252)
                 /\ transformed.ret.national_employment.v = 100000
                 /\ transformed.ret.national_median_wage.v = 7500000

\* the entries of every profile filed under an id, with the code of their profile
EntriesOf(items, id) ==
    LET Of(item) ==
            LET d == item.details
                all == d.skills \o d.knowledge \o d.abilities
                mine == SelectSeq(all, LAMBDA e : e.id = id)
            IN  [k \in 1..Len(mine) |-> [code |-> item.key, entry |-> mine[k]]]
    IN  Concat([k \in 1..Len(items) |-> Of(items[k])])

SkillDocsBuilt == spc \in {"indexing", "done"}

\* C7: occupation_count is the number of distinct occupations that contributed
\* the skill id, and related_occupations holds min(50, occupation_count) entries.
C7_OccupationCount ==
    SkillDocsBuilt =>
        \A k \in 1..Len(documents) :
            LET contributors == {e.code : e \in
                                    {EntriesOf(onet_data, documents[k].id)[j] :
                                        j \in 1..Len(EntriesOf(onet_data, documents[k].id))}}
            IN  /\ documents[k].occupation_count = Cardinality(contributors)
                /\ Len(documents[k].related_occupations)
                      = Min(MaxRelated, documents[k].occupation_count)

\* the importances (levels) recorded under an id that are neither absent nor 0
Recorded(items, id, field) ==
    LET es == EntriesOf(items, id)
        vs == [k \in 1..Len(es) |-> es[k].entry[field]]
    IN  SelectSeq(vs, LAMBDA x : x.t # "none" /\ x.v # 0)

Abs(n) == IF n < 0 THEN 0 - n ELSE n

MeanExactly(avg, xs) ==
    IF xs = <<>> THEN avg.v = 0 ELSE avg.v * Len(xs) = SumSeq(xs, LAMBDA x : x.v)

MeanRounded(avg, xs) ==
    IF xs = <<>> THEN avg.v = 0
    ELSE 2 * Abs(avg.v * Len(xs) - SumSeq(xs, LAMBDA x : x.v)) <= Len(xs)

\* C8 as stated: avg_importance and avg_level are the arithmetic mean of the
\* values that are neither 0 nor absent, and 0 when there is none.
C8_AverageIsExactMean ==
    SkillDocsBuilt =>
        \A k \in 1..Len(documents) :
            /\ MeanExactly(documents[k].avg_importance,
                           Recorded(onet_data, documents[k].id, "importance"))
            /\ MeanExactly(documents[k].avg_level,
                           Recorded(onet_data, documents[k].id, "level"))

\* C8: avg_importance and avg_level are the arithmetic mean of the values that
\* are neither 0 nor absent, rounded to two decimals (so within half a hundredth
\* of the mean), and 0 when there is none.
C8_AverageIsRoundedMean ==
    SkillDocsBuilt =>
        \A k \in 1..Len(documents) :
            /\ MeanRounded(documents[k].avg_importance,
                           Recorded(onet_data, documents[k].id, "importance"))
            /\ MeanRounded(documents[k].avg_level,
                           Recorded(onet_data, documents[k].id, "level"))

\* three occupations report importances 4, none and 2: the average is 3.0
C8_Witness ==
    /\ spc = "done"
    /\ \E k \in 1..Len(documents) :
          /\ documents[k].occupation_count = 3
          /\ [j \in 1..3 |-> documents[k].related_occupations[j].importance.v]
                = <<400, 0, 200>>
          /\ documents[k].avg_importance.v = 300

Returned == ipc = "returned"

\* C9: index_documents issues ceil(n/b) import_ calls, in order, each with the
\* next b documents (the last with what is left), the chunks together being the
\* input list.
C9_Chunks ==
    Returned =>
        LET n == Len(documents)
            b == batch_size
            c == Len(import_calls)
        IN  /\ c = (n + b - 1) \div b
            /\ \A k \in 1..c :
                  /\ import_calls[k].batch = SubSeq(documents, (k - 1) * b + 1, Min(k * b, n))
                  /\ k < c => Len(import_calls[k].batch) = b
                  /\ Len(import_calls[k].batch) \in 1..b
            /\ Concat([k \in 1..c |-> import_calls[k].batch]) = documents

\* five documents with batch size 2 were sent as chunks of 2, 2 and 1
C9_Witness ==
    /\ Returned
    /\ Len(documents) = 5
    /\ batch_size = 2
    /\ [k \in 1..Len(import_calls) |-> Len(import_calls[k].batch)] = <<2, 2, 1>>

RaisedFailed(call) == IF call.outcome.raised THEN Len(call.batch) ELSE 0
ItemFailed(call) ==
    IF call.outcome.raised THEN 0
    ELSE Cardinality({k \in 1..Len(call.batch) : ~call.outcome.results[k]})
ItemSuccess(call) ==
    IF call.outcome.raised THEN 0
    ELSE Cardinality({k \in 1..Len(call.batch) : call.outcome.results[k]})
BatchLen(call) == Len(call.batch)

\* C10: a chunk whose import_ call raises counts all its documents as failed and
\* none as success, the loop goes on to every later chunk and returns; a chunk
\* with per-item results counts each document by its own result.
C10_ChunkFailureTally ==
    /\ ipc \in {"loop", "returned"} =>
          /\ total_failed = SumSeq(import_calls, RaisedFailed) + SumSeq(import_calls, ItemFailed)
          /\ total_success = SumSeq(import_calls, ItemSuccess)
    /\ Returned => SumSeq(import_calls, BatchLen) = Len(documents)

\* the second of three chunks raised and the third was still sent and stored
C10_Witness ==
    /\ Returned
    /\ Len(import_calls) = 3
    /\ import_calls[2].outcome.raised
    /\ ~import_calls[3].outcome.raised
    /\ total_success = Len(import_calls[1].batch) + Len(import_calls[3].batch)
    /\ total_failed = Len(import_calls[2].batch)

\* trigger_refresh (api/main.py): what the caller of POST /admin/refresh gets
\* for the run in its current position: an exception out of run_full_refresh
\* becomes HTTPException(status_code=500, detail=str(e)), a returned summary is
\* wrapped in {"status": "completed", "results": results}
trigger_refresh ==
    IF ppc = "raised"
    THEN [status_code |-> 500, detail |-> raised]
    ELSE [status_code |-> 200, status |-> "completed", results |-> results]

\* the summary holds nothing but the start time and the national row count is
\* absent: no stage after the extraction has reported
NoStageReported == DOMAIN results = {"started"}

\* C12: when the national extraction of run_full_refresh fails, the error
\* leaves run_full_refresh, the API caller gets a failure (status 500 carrying
\* the error), and no later stage has run: no profile was requested, no
\* index_documents call was started, no import was sent to the store and the
\* summary has no stage entry.
C12_ExtractionFailureAborts ==
    (operation = "run_full_refresh" /\ raised = "SourceError") =>
        /\ ppc = "raised"
        /\ trigger_refresh.status_code = 500
        /\ trigger_refresh.detail = "SourceError"
        /\ onet_calls = <<>>
        /\ onet_data = <<>>
        /\ collection_name = "none"
        /\ ipc = "idle"
        /\ import_calls = <<>>
        /\ NoStageReported

\* the extraction failed after the three collections were provisioned
C12_Witness ==
    /\ operation = "run_full_refresh"
    /\ raised = "SourceError"
    /\ ppc = "raised"
    /\ schema_i = Len(Schemas)
    /\ include_onet
    /\ include_location_wages

\* the code of _load_onet_data's loop with "-" and "." removed
Normalized(code) == Replace(Replace(code.s, "-"), ".")

\* a code the loop requests a profile for
Fetchable(code) == code.t = "str" /\ Len(Normalized(code)) >= 6

\* the profile requests the loop makes for a list of codes when none is
\* skipped because of another
AttemptsFor(codes) ==
    LET sel == SelectSeq(codes, Fetchable)
    IN  [k \in 1..Len(sel) |-> OnetCodeFor(Normalized(sel[k]))]

\* the keys of the code-to-profile map
Keys(profiles) == {profiles[k].key : k \in 1..Len(profiles)}

\* the documents handed to the import calls made so far
Imported == UNION {Range(import_calls[k].batch) : k \in 1..Len(import_calls)}

\* C13: in a run with profiles enabled, the loop of _load_onet_data has
\* requested a profile for every fetchable code it has passed, whatever the
\* outcome of the earlier requests; once the run is past the loop every code
\* was passed; the map holds only requested keys; and for every detailed row
\* whose code was requested but is absent from the map, the occupation load
\* has produced the wage-only document of that row, which is in a chunk sent
\* to the store once the chunk loop is over.
C13_FetchFailureIsLocal ==
    (operation = "run_full_refresh" /\ include_onet) =>
        /\ onet_calls = AttemptsFor(SubSeq(soc_codes, 1, code_i))
        /\ ppc \notin {"start", "provision", "extract", "load_onet", "raised"}
              => code_i = Len(soc_codes)
        /\ Keys(onet_data) \subseteq Range(onet_calls)
        /\ ppc = "occupations_indexing" =>
              /\ Len(documents) = Len(detailed_df.rows)
              /\ \A k \in 1..Len(detailed_df.rows) :
                    LET row == detailed_df.rows[k]
                        code == row["OCC_CODE"]
                    IN  (Fetchable(code) /\ OnetCodeFor(Normalized(code)) \notin Keys(onet_data))
                           => /\ documents[k] = transform_occupation(row, NoProfile, clock).ret
                              /\ i >= Len(documents) => documents[k] \in Imported

\* two codes were requested, one fetch failed and one succeeded, and the
\* occupation load has sent both documents
C13_Witness ==
    /\ operation = "run_full_refresh"
    /\ include_onet
    /\ ppc = "occupations_indexing"
    /\ Len(onet_calls) = 2
    /\ Len(onet_data) = 1
    /\ onet_calls[1] \notin Keys(onet_data)
    /\ Len(documents) = 2
    /\ i >= Len(documents)

\* C14: once provisioning and the national extraction have succeeded,
\* run_full_refresh never raises.
C14_CompletesAfterExtraction ==
    (operation = "run_full_refresh" /\ national_df # NoFrame) => ppc # "raised"

\* a wage stage's result carries an error
Errored(r) == "error" \in DOMAIN r

\* what a wage stage may return: the zero-success result with its error, or
\* the two counters of index_documents
WageResult(r) ==
    \/ DOMAIN r = {"success", "failed", "error"} /\ r.success = 0 /\ r.failed = 0
    \/ DOMAIN r = {"success", "failed"}

\* the stage that has just returned handed every document it built to
\* index_documents and reports that call's counters
TallyOfCall(r) ==
    /\ collection_name = "occupation_wages_by_location"
    /\ r = Counters
    /\ r.success + r.failed = Len(documents)

StateDone == {"metro", "metro_indexing", "skills", "skills_indexing", "done"}
MetroDone == {"skills", "skills_indexing", "done"}

\* the skills stage ran exactly when profiles were wanted and one was loaded
SkillsStageRan == include_onet /\ onet_data # <<>>

\* C15 (as the code has it): in a run with location wages enabled the state
\* load and the metro load are each attempted and each reports its own
\* result; a failed download or transform gives success = 0, failed = 0 and
\* an error, a load that reached index_documents gives that call's counters
\* over all its documents (chunk failures counted in failed, without an
\* error); no failure of either stage leaves run_full_refresh, so the other
\* granularity and the skills stage still complete.
C15_WageLoadsIndependent ==
    (operation = "run_full_refresh" /\ include_location_wages) =>
        /\ ppc = "raised" => "occupations_indexed" \notin DOMAIN results
        /\ ppc \in StateDone =>
              /\ "state_wages_indexed" \in DOMAIN results
              /\ WageResult(results["state_wages_indexed"])
        /\ ppc \in MetroDone =>
              /\ "metro_wages_indexed" \in DOMAIN results
              /\ WageResult(results["metro_wages_indexed"])
        /\ (ppc = "metro" /\ ~Errored(results["state_wages_indexed"]))
              => TallyOfCall(results["state_wages_indexed"])
        /\ (ppc = "skills" /\ ~Errored(results["metro_wages_indexed"]))
              => TallyOfCall(results["metro_wages_indexed"])
        /\ ppc = "done" => ("skills_indexed" \in DOMAIN results <=> SkillsStageRan)

\* C15 (as stated): every failure of a wage stage, a failed chunk load
\* included, is reported as success = 0 with an attached error.
C15_EveryFailureIsAnErrorResult ==
    (operation = "run_full_refresh" /\ include_location_wages) =>
        \A key \in {"state_wages_indexed", "metro_wages_indexed"} \cap DOMAIN results :
            results[key].failed > 0 =>
                (results[key].success = 0 /\ Errored(results[key]))

\* the state download failed, the metro load wrote its document, and the
\* skills stage completed
C15_Witness ==
    /\ operation = "run_full_refresh"
    /\ include_location_wages
    /\ ppc = "done"
    /\ Errored(results["state_wages_indexed"])
    /\ ~Errored(results["metro_wages_indexed"])
    /\ results["metro_wages_indexed"].success > 0
    /\ "skills_indexed" \in DOMAIN results

\* C16: the skills stage of run_full_refresh runs if and only if profiles
\* were wanted and at least one fetch succeeded: index_documents is called
\* for the skills collection only then, a finished run has a skills count
\* exactly then, and otherwise the skills collection holds what provisioning
\* left.
C16_SkillsStageGuard ==
    operation = "run_full_refresh" =>
        /\ collection_name = "skills" => SkillsStageRan
        /\ ppc = "skills_indexing" => (SkillsStageRan /\ collection_name = "skills")
        /\ ppc = "done" =>
              /\ "skills_indexed" \in DOMAIN results <=> SkillsStageRan
              /\ collection_name = "skills" <=> SkillsStageRan
              /\ ~SkillsStageRan => store["skills"].docs = EmptyDocs

\* a run with profiles wanted whose every fetch failed has completed without
\* a skills stage
C16_Witness ==
    /\ operation = "run_full_refresh"
    /\ ppc = "done"
    /\ include_onet
    /\ onet_calls # <<>>
    /\ onet_data = <<>>
    /\ "skills_indexed" \notin DOMAIN results

\* a run whose skills stage has written a skill document
C16_WitnessRan ==
    /\ operation = "run_full_refresh"
    /\ ppc = "done"
    /\ "skills_indexed" \in DOMAIN results
    /\ results["skills_indexed"].success > 0

\* the fields of an occupation document the profile does not derive
FrameFields ==
    {"id", "soc_code", "onet_code", "title", "occupation_group", "national_employment"}
        \cup DOMAIN WageFields

\* the fields _transform_onet_data derives from a profile
ProfileFields ==
    DOMAIN _transform_onet_data(Profile(PyStr(<<>>), <<>>, <<>>, <<>>, 0, PyNone))

\* the occupations collection
Occupations == store["occupations"].docs

\* C17: every step of update_onet_data leaves the occupations collection with
\* the same ids, and each stored document with the same id, code, title,
\* group, employment, wage and percentile fields as before the step; a
\* document that changed differs only in profile-derived fields and
\* last_updated, which hold what the fetched profile gives and the time of
\* the update.
C17_UpdateKeepsWageFields ==
    [][operation = "update_onet_data" =>
         /\ DOMAIN Occupations' = DOMAIN Occupations
         /\ \A id \in DOMAIN Occupations :
               LET before == Occupations[id]
                   after == Occupations'[id]
               IN  /\ FrameFields \subseteq DOMAIN after
                   /\ \A f \in DOMAIN before \ (ProfileFields \cup {"last_updated"}) :
                         f \in DOMAIN after /\ after[f] = before[f]
                   /\ DOMAIN after \ DOMAIN before \subseteq ProfileFields
                   /\ after # before =>
                         /\ after["last_updated"] = clock
                         /\ \E details \in FetchedProfiles(VersionedFor(id)) :
                               \A f \in ProfileFields :
                                  after[f] = _transform_onet_data(details)[f]]_vars

\* the wage-only document of the second occupation now carries a skill of the
\* fetched profile, with its employment as before
C17_Witness ==
    /\ operation = "update_onet_data"
    /\ ppc = "done"
    /\ results.updated = 2
    /\ IndexedCode(2) \in DOMAIN Occupations
    /\ "skills" \in DOMAIN Occupations[IndexedCode(2)]
    /\ Occupations[IndexedCode(2)]["skills"] # <<>>
    /\ "skills" \notin DOMAIN IndexedDoc(2)
    /\ Occupations[IndexedCode(2)]["last_updated"] = clock
    /\ Occupations[IndexedCode(2)]["national_employment"] = IndexedDoc(2)["national_employment"]

\* the code the step in progress handles
CurrentCode == soc_codes[code_i + 1]

\* a step of the loop of update_onet_data
Iteration == ppc = "update_loop" /\ code_i' = code_i + 1

\* C18: each step of update_onet_data's loop requests the profile of the next
\* code of the list and goes on with the loop; a step either counts one
\* failure and leaves the store as it was, or counts one update and has
\* stored the merged document, or (no stored document for the code) counts
\* nothing and changes nothing; the call returns status "completed".
C18_FailuresCounted ==
    [][/\ Iteration =>
            /\ onet_calls' = Append(onet_calls, VersionedFor(CurrentCode))
            /\ ppc' = "update_loop"
            /\ results'.failed = results.failed + 1 =>
                  (store' = store /\ results'.updated = results.updated)
            /\ results'.updated = results.updated + 1 =>
                  /\ results'.failed = results.failed
                  /\ total_success' = 1
                  /\ Occupations'[CurrentCode]["last_updated"] = clock
            /\ results' = results =>
                  (store' = store /\ CurrentCode \notin DOMAIN Occupations)
            /\ results'.updated + results'.failed \in
                  {results.updated + results.failed, results.updated + results.failed + 1}
       /\ (ppc = "update_loop" /\ ppc' = "done") =>
            /\ code_i = Len(soc_codes)
            /\ Len(onet_calls) = Len(soc_codes)
            /\ results'.status = "completed"]_vars

\* C19: called without a code list, update_onet_data walks the code of every
\* document of the occupations collection.
C19_SearchFindsEveryCode ==
    [][(ppc = "update_search" /\ ppc' = "update_loop") =>
          Range(soc_codes') = {Occupations[id]["soc_code"] : id \in DOMAIN Occupations}]_vars

\* the requests the claim names as required
Mandatory ==
    {"occupation", "job_zone", "skills", "knowledge", "abilities", "technology_skills",
     "tasks"}

\* the request was made and gave up
FailedCall(sub) == sub \in DOMAIN fetch_answers /\ fetch_answers[sub].exc # "none"

\* C20: get_complete_occupation raises exactly when one of the seven required
\* requests has failed, and then returns nothing; when it returns, every
\* request was made, the profile carries the answers of the required ones,
\* education is None if the education request failed and its answer
\* otherwise, and bright_outlook is false if the outlook request failed; until
\* then no profile exists.
C20_BestEffortSubCalls ==
    /\ fetch_pc = "raised" <=> \E sub \in Mandatory : FailedCall(sub)
    /\ fetch_pc = "raised" => (fetch_outcome.exc # "none" /\ fetch_outcome.ret = PyNone)
    /\ fetch_pc \notin {"raised", "returned"} => fetch_outcome = NotCalled
    /\ fetch_pc = "returned" =>
          /\ fetch_outcome.exc = "none"
          /\ DOMAIN fetch_answers = Range(SubCalls)
          /\ \A sub \in Mandatory \ {"occupation", "job_zone"} :
                fetch_outcome.ret[sub] = fetch_answers[sub].ret
          /\ fetch_outcome.ret.code = fetch_code
          /\ FailedCall("education") => fetch_outcome.ret.education = PyNone
          /\ ~FailedCall("education") =>
                fetch_outcome.ret.education = fetch_answers["education"].ret
          /\ FailedCall("bright_outlook") => fetch_outcome.ret.bright_outlook = FALSE

\* the education and the outlook requests both gave up and the profile was
\* returned, with a skill
C20_Witness ==
    /\ fetch_pc = "returned"
    /\ FailedCall("education")
    /\ FailedCall("bright_outlook")
    /\ fetch_outcome.ret.skills # <<>>
    /\ fetch_outcome.ret.education = PyNone
    /\ ~fetch_outcome.ret.bright_outlook

\* the tasks request gave up after six answers and the fetch raised
C20_WitnessRaised ==
    /\ fetch_pc = "raised"
    /\ FailedCall("tasks")
    /\ Cardinality(DOMAIN fetch_answers) = 7

\* the index_documents results of a summary
StageKeys ==
    {"occupations_indexed", "state_wages_indexed", "metro_wages_indexed", "skills_indexed"}

\* no document of the run was refused and no chunk failed
AllAccepted(summary) ==
    \A key \in StageKeys \cap DOMAIN summary : summary[key].failed = 0

\* the fields a transform fills from the clock
TimeFields == {"last_updated", "data_year"}

\* the second run has returned
SecondRunDone == run = 2 /\ ppc = "done"

\* the ids of every collection are those the first run left
SameIds == \A c \in Collections : DOMAIN store[c].docs = DOMAIN first.store[c].docs

C27_CountsAddUp ==
    /\ ipc \in {"loop", "returned"} =>
          total_success + total_failed = Min(i, Len(documents))
    /\ Returned => total_success + total_failed = Len(documents)

\* five documents in chunks of two: one chunk raised, another had one document
\* accepted and one refused
C27_Witness ==
    /\ Returned
    /\ Len(documents) = 5
    /\ batch_size = 2
    /\ \E k \in 1..Len(import_calls) : import_calls[k].outcome.raised
    /\ \E k \in 1..Len(import_calls) :
          /\ ~import_calls[k].outcome.raised
          /\ import_calls[k].outcome.results = <<TRUE, FALSE>>
    /\ total_success + total_failed = 5

\* C29: update_onet_data counts a code as updated only in a step whose upsert
\* the store accepted: the merged document of the code is then the stored one.
C29_UpdatedMeansStored ==
    [][(Iteration /\ results'.updated # results.updated) =>
          /\ results'.updated = results.updated + 1
          /\ Len(import_calls') = 1
          /\ ~import_calls'[1].outcome.raised
          /\ import_calls'[1].outcome.results = <<TRUE>>
          /\ CurrentCode \in DOMAIN Occupations'
          /\ Occupations'[CurrentCode] = import_calls'[1].batch[1]]_vars

\* C30: in update_onet_data every code handled so far is counted once, as
\* updated or as failed, and on return updated + failed is the length of the
\* code list.
C30_EveryCodeCounted ==
    operation = "update_onet_data" =>
        /\ ppc = "update_loop" => results.updated + results.failed = code_i
        /\ ppc = "done" => results.updated + results.failed = Len(soc_codes)

\* run_full_refresh has aborted on the failure of the national extraction
ExtractionAborted == operation = "run_full_refresh" /\ raised = "SourceError"

\* C28: a run_full_refresh that aborts on the failure of the national
\* extraction leaves every collection with the documents it held when the
\* run was called, also with drop_existing = true.
C28_AbortLeavesContents ==
    ExtractionAborted => \A c \in Collections : store[c].docs = first.store[c].docs

\* a stage has reported in the summary
Reported_(key) == key \in DOMAIN results

\* C22: in run_full_refresh the stages follow one order: nothing is
\* extracted, fetched or sent to the store before the three collections are
\* provisioned; no profile is requested before the national table is there;
\* when the first index_documents call starts every profile request has been
\* made; location wages are sent only after the occupations have reported,
\* the metro result comes after the state result, the skills are sent after
\* the occupations and, with location wages enabled, after both wage
\* results; the end timestamp is in the summary only when the run is over,
\* after every stage that reports.
C22_StageOrder ==
    operation = "run_full_refresh" =>
        /\ (national_df # NoFrame \/ onet_calls # <<>> \/ collection_name # "none")
              => schema_i = Len(Schemas)
        /\ onet_calls # <<>> => (national_df # NoFrame /\ Reported_("bls_national_records"))
        /\ collection_name # "none" =>
              /\ national_df # NoFrame
              /\ code_i = Len(soc_codes)
              /\ onet_calls = AttemptsFor(soc_codes)
        /\ collection_name = "occupation_wages_by_location" => Reported_("occupations_indexed")
        /\ Reported_("state_wages_indexed") => Reported_("occupations_indexed")
        /\ ppc = "metro_indexing" => Reported_("state_wages_indexed")
        /\ Reported_("metro_wages_indexed") => Reported_("state_wages_indexed")
        /\ collection_name = "skills" =>
              /\ Reported_("occupations_indexed")
              /\ include_location_wages => Reported_("metro_wages_indexed")
        /\ Reported_("completed") =>
              /\ ppc = "done"
              /\ Reported_("occupations_indexed")
              /\ include_location_wages => Reported_("metro_wages_indexed")
              /\ results["completed"] >= results["started"]

\* a run with every stage has completed
C22_Witness ==
    /\ operation = "run_full_refresh"
    /\ ppc = "done"
    /\ onet_calls # <<>>
    /\ StageKeys \subseteq DOMAIN results
    /\ Reported_("completed")

\* the raw codes of the run that normalize to a canonical code
NormalizableCodes == {c \in Range(soc_codes) : Canonical(_normalize_soc_code(c))}

\* C24: in the profile stage of a run no versioned code is requested twice,
\* and every request is for the canonical form of a code of the table that
\* can be normalized.
C24_OneFetchPerCode ==
    operation = "run_full_refresh" =>
        /\ \A j, k \in 1..Len(onet_calls) : onet_calls[j] = onet_calls[k] => j = k
        /\ \A k \in 1..Len(onet_calls) :
              \E c \in NormalizableCodes :
                 onet_calls[k] = to_versioned(_normalize_soc_code(c))

(***************************************************************************)
(* Key of a fetched profile against the keys looked up by the transformer   *)
(***************************************************************************)
\* the keys transform_bulk_occupations looks up for a cell whose normalized
\* form is soc: onet_data.get(onet_code) or onet_data.get(soc_code)
LookupKeys(soc) == {to_versioned(soc), soc}

\* C26: for every raw code cell for which _load_onet_data makes a fetch, the
\* key under which it stores the profile is one of the keys that
\* transform_bulk_occupations looks up for the same cell, surrounding
\* whitespace included.
C26_StoredKeyIsLookedUp ==
    (npc # "start" /\ Fetchable(soc_code)) =>
        OnetCodeFor(Normalized(soc_code)) \in LookupKeys(soc_norm)

(***************************************************************************)
(* One aggregate per skill id                                              *)
(***************************************************************************)
TypedEntries(entries, type) ==
    [k \in 1..Len(entries) |-> [entry |-> entries[k], type |-> type]]

\* the entries of every profile in the order the builder reads them, each with
\* the type of the list it came from
Processed(items) ==
    LET Of(item) == TypedEntries(item.details.skills, "skill")
                    \o TypedEntries(item.details.knowledge, "knowledge")
                    \o TypedEntries(item.details.abilities, "ability")
    IN  Concat([k \in 1..Len(items) |-> Of(items[k])])

\* the last entry read under an id
LastProcessed(items, id) ==
    LET mine == SelectSeq(Processed(items), LAMBDA e : e.entry.id = id)
    IN  mine[Len(mine)]

\* C25: _build_skills_collection emits exactly one aggregate document per
\* distinct id among the skills, knowledge and ability entries of the fetched
\* profiles, and the document's name, description and type are those of the
\* last entry read for that id.
C25_OneAggregatePerId ==
    SkillDocsBuilt =>
        /\ \A j, k \in 1..Len(documents) : documents[j].id = documents[k].id => j = k
        /\ {documents[k].id : k \in 1..Len(documents)}
              = {e.entry.id : e \in Range(Processed(onet_data))}
        /\ \A k \in 1..Len(documents) :
              LET last == LastProcessed(onet_data, documents[k].id)
              IN  /\ documents[k].skill_id = documents[k].id
                  /\ documents[k].skill_name = last.entry.name
                  /\ documents[k].description = last.entry.description
                  /\ documents[k].skill_type = last.type

\* three profiles were folded: one id came as a skill and, last and under
\* another name, as knowledge; another id came once
C25_Witness ==
    /\ SkillDocsBuilt
    /\ Len(onet_data) = 3
    /\ Len(documents) = 2
    /\ \E k \in 1..Len(documents) :
          /\ documents[k].id = PyStr(Id_2A1a)
          /\ documents[k].skill_type = "knowledge"
          /\ documents[k].skill_name = Text("Reading Knowledge")
          /\ documents[k].occupation_count >= 2
          /\ \E e \in Range(Processed(onet_data)) :
                /\ e.entry.id = PyStr(Id_2A1a)
                /\ e.type = "skill"
                /\ e.entry.name # documents[k].skill_name

(***************************************************************************)
(* Attempts of one request                                                 *)
(***************************************************************************)
\* a get_ method is waiting for _get
InCall == fetch_pc \in Range(SubCalls)

\* the step is an attempt of the pending _get
Attempt == InCall /\ fetch_requests' = fetch_requests + 1

\* the pending _get ends with this step
CallEnds == InCall /\ fetch_pc \in DOMAIN fetch_answers'

\* C23: every _get ends after at most 3 HTTP attempts: it returns the response
\* of its first successful attempt and sleeps the rate-limit delay for it, and
\* it raises once the third consecutive attempt has failed and not before; a
\* whole profile fetch makes at most 3 requests for each of its endpoints.
C23_BoundedAttempts ==
    [][/\ InCall => Attempt
       /\ fetch_attempts' < MaxAttempts
       /\ fetch_requests' <= MaxAttempts * Len(SubCalls)
       /\ fetch_delays' <= fetch_requests'
       /\ (InCall /\ ~CallEnds) =>
             /\ fetch_pc' = fetch_pc
             /\ fetch_attempts' = fetch_attempts + 1
       /\ CallEnds =>
             /\ fetch_attempts' = 0
             /\ fetch_answers'[fetch_pc].exc # "none" =>
                   /\ fetch_attempts = MaxAttempts - 1
                   /\ fetch_answers'[fetch_pc].ret = PyNone
             /\ fetch_answers'[fetch_pc].exc = "none" =>
                   /\ fetch_answers'[fetch_pc].ret \in Payloads(fetch_pc)
                   /\ fetch_delays' = fetch_delays + 1]_vars

\* a profile was returned after a request that succeeded at its third attempt
\* and a guarded request that used up its attempts
C23_Witness ==
    /\ fetch_pc = "returned"
    /\ FailedCall("education")
    /\ ~FailedCall("bright_outlook")
    /\ fetch_requests = Len(SubCalls) + (MaxAttempts - 1) + (MaxAttempts - 1)
    /\ fetch_delays = Len(SubCalls) - 1

(***************************************************************************)
(* OEWSSeriesID                                                            *)
(***************************************************************************)
\* the defaults of the dataclass fields
NationalArea == <<"0", "0", "0", "0", "0", "0", "0">>
CrossIndustry == <<"0", "0", "0", "0", "0", "0">>
AllOccupations == <<"0", "0", "0", "0", "0", "0">>

EMPLOYMENT == <<"0", "1">>
HOURLY_MEAN == <<"0", "3">>
ANNUAL_MEAN == <<"0", "4">>
HOURLY_MEDIAN == <<"0", "8">>
ANNUAL_MEDIAN == <<"1", "3">>
HOURLY_PCT_10 == <<"0", "7">>
HOURLY_PCT_25 == <<"1", "0">>
HOURLY_PCT_75 == <<"1", "1">>
HOURLY_PCT_90 == <<"1", "2">>
ANNUAL_PCT_10 == <<"1", "4">>
ANNUAL_PCT_25 == <<"1", "5">>
ANNUAL_PCT_75 == <<"1", "6">>
ANNUAL_PCT_90 == <<"1", "7">>

\* OEWSSeriesID(area_code=..., industry_code=..., occupation_code=..., data_type=...)
OEWSSeriesID(area_code, industry_code, occupation_code, data_type) ==
    [area_code |-> area_code, industry_code |-> industry_code,
     occupation_code |-> occupation_code, data_type |-> data_type]

\* f"OEUM{self.area_code}{self.industry_code}{self.occupation_code}{self.data_type}"
build(self) ==
    PyStr(<<"O", "E", "U", "M">> \o self.area_code \o self.industry_code
          \o self.occupation_code \o self.data_type)

\* soc_code.replace("-", "").replace(".", "")[:6]
OccCode(code) == Slice(Replace(Replace(code, "-"), "."), 0, 6)

\* type_map.get(wage_type, cls.ANNUAL_MEDIAN)
TypeMap(wage_type) ==
    CASE wage_type = "annual_mean" -> ANNUAL_MEAN
      [] wage_type = "annual_median" -> ANNUAL_MEDIAN
      [] wage_type = "hourly_mean" -> HOURLY_MEAN
      [] wage_type = "hourly_median" -> HOURLY_MEDIAN
      [] OTHER -> ANNUAL_MEDIAN

(***************************************************************************)
(* Inputs of OEWSSeriesID                                                  *)
(***************************************************************************)
Virginia == <<"5", "1", "0", "0", "0", "0", "0">>

AreaCodes == {NationalArea, Virginia}
OccupationCodes == {AllOccupations, C_151252}
DataTypes ==
    {EMPLOYMENT, HOURLY_MEAN, ANNUAL_MEAN, HOURLY_MEDIAN, ANNUAL_MEDIAN, HOURLY_PCT_10,
     HOURLY_PCT_25, HOURLY_PCT_75, HOURLY_PCT_90, ANNUAL_PCT_10, ANNUAL_PCT_25,
     ANNUAL_PCT_75, ANNUAL_PCT_90}
WageTypes == {"annual_mean", "annual_median", "hourly_mean", "hourly_median", "weekly"}

InitSeries ==
    /\ PipeIdle
    /\ RerunIdle
    /\ FetchIdle
    /\ IndexIdle
    /\ SkillIdle
    /\ NormIdle
    /\ ConvIdle
    /\ TransIdle
    /\ series_call = NotCalled
    /\ series = NotCalled
    /\ series_id = NotCalled
    /\ bpc = "start"

\* an instance is made with its fields given
Construct ==
    /\ bpc = "start"
    /\ \E area \in AreaCodes, occupation \in OccupationCodes, type \in DataTypes :
          series' = OEWSSeriesID(area, CrossIndustry, occupation, type)
    /\ series_call' = [name |-> "OEWSSeriesID"]
    /\ bpc' = "constructed"
    /\ UNCHANGED series_id
    /\ UNCHANGED SeriesOthers

\* series.build() on that instance
Build ==
    /\ bpc = "constructed"
    /\ series_id' = build(series)
    /\ bpc' = "built"
    /\ UNCHANGED <<series_call, series>>
    /\ UNCHANGED SeriesOthers

national_employment ==
    /\ bpc = "start"
    /\ \E code \in NamedCodes :
          LET self == OEWSSeriesID(NationalArea, CrossIndustry, OccCode(code), EMPLOYMENT)
          IN  /\ series_call' = [name |-> "national_employment", soc_code |-> code]
              /\ series' = self
              /\ series_id' = build(self)
    /\ bpc' = "built"
    /\ UNCHANGED SeriesOthers

national_wage ==
    /\ bpc = "start"
    /\ \E code \in NamedCodes, wage_type \in WageTypes :
          LET self == OEWSSeriesID(NationalArea, CrossIndustry, OccCode(code),
                                   TypeMap(wage_type))
          IN  /\ series_call' = [name |-> "national_wage", soc_code |-> code,
                                 wage_type |-> wage_type]
              /\ series' = self
              /\ series_id' = build(self)
    /\ bpc' = "built"
    /\ UNCHANGED SeriesOthers

NextSeries == Construct \/ Build \/ national_employment \/ national_wage

SpecSeries == InitSeries /\ [][NextSeries]_vars

\* the parts of an identifier follow the prefix in the order area, industry,
\* occupation, data type
Composed ==
    series_id = PyStr(<<"O", "E", "U", "M">> \o series.area_code \o series.industry_code
                      \o series.occupation_code \o series.data_type)

\* C21: build returns "OEUM" followed by the area, industry, occupation and
\* data-type codes; national_employment and national_wage use the first six
\* characters of the code without hyphens and dots with the national area and
\* the cross-industry code, so that "15-1252" gives
\* "OEUM0000000000000151252001" and (annual median)
\* "OEUM0000000000000151252013", and area 5100000 with occupation 151252 and
\* data type 04 builds "OEUM5100000000000151252004".
C21_SeriesIds ==
    bpc = "built" =>
        /\ Composed
        /\ series_call.name \in {"national_employment", "national_wage"} =>
              /\ series.area_code = NationalArea
              /\ series.industry_code = CrossIndustry
              /\ series.occupation_code = OccCode(series_call.soc_code)
        /\ (series_call.name = "national_employment"
            /\ series_call.soc_code = <<"1", "5", "-", "1", "2", "5", "2">>) =>
              series_id = PyStr(<<"O", "E", "U", "M">> \o NationalArea
                                \o <<"0", "0", "0", "0", "0", "0">>
                                \o <<"1", "5", "1", "2", "5", "2">>
                                \o <<"0", "0", "1">>)
        /\ (series_call.name = "national_wage"
            /\ series_call.soc_code = <<"1", "5", "-", "1", "2", "5", "2">>
            /\ series_call.wage_type = "annual_median") =>
              series_id = PyStr(<<"O", "E", "U", "M">> \o NationalArea
                                \o <<"0", "0", "0", "0", "0", "0">>
                                \o <<"1", "5", "1", "2", "5", "2">>
                                \o <<"0", "1", "3">>)
        /\ (series_call.name = "OEWSSeriesID"
            /\ series.area_code = Virginia
            /\ series.occupation_code = C_151252
            /\ series.data_type = ANNUAL_MEAN) =>
              series_id = PyStr(<<"O", "E", "U", "M">> \o Virginia
                                \o <<"0", "0", "0", "0", "0", "0">>
                                \o <<"1", "5", "1", "2", "5", "2">>
                                \o <<"0", "0", "4">>)

====
